---- MODULE Spec2Model ----
(***************************************************************************)
(* A model of the ticket synchronisation engine of tct-feature-tracker:     *)
(*   - the retry wrapper and the chunked bulk fetch of                       *)
(*     packages/ticketfetchers/ticket_fetcher_optimized.py,                  *)
(*   - the row builder of the same file,                                     *)
(*   - the reconciliation and read-through entry points of packages/help.py  *)
(*     over the document store of packages/database/schema.py.              *)
(* Three specifications share the module: SpecBackoff (one wrapped lookup),  *)
(* SpecBulk (one bulk fetch) and Spec (the store and its entry points).      *)
(***************************************************************************)
EXTENDS Integers, Sequences, FiniteSets, TLC

VARIABLES
    \* ---- one call of TicketFetch._search_issues_with_backoff
    call,           \* the loop's locals plus the log of attempts and sleeps
    \* ---- one call of TicketFetch._bulk_fetch_issues_by_keys
    keys_arg,       \* the `keys` argument, as passed (duplicates, empties)
    max_workers_arg,  \* the `max_workers` argument of __init__ (0 for None)
    max_workers,    \* self.MAX_WORKERS after __init__
    backend,        \* the tracker's issues: identifier -> record
    chunks,         \* list(self._chunked(keys, CHUNK_SIZE))
    futures,        \* chunk index -> state of its lookup
    consumed,       \* chunk indices the dispatching thread has taken the result of
    key_to_issue,   \* the result mapping
    lookups,        \* chunk index -> search_issues calls issued for it
    bulk_pc,        \* position of the dispatching thread
    \* ---- the document store (one release's collection) and its clients
    collection_present,  \* Database.iscollection_present()
    docs,           \* _id -> document of the collection
    run,            \* the locals of the force_refetch_and_update call in progress
    history,        \* the finished force_refetch_and_update calls, oldest first
    edits,          \* user edits made so far
    faults,         \* store calls that have raised so far
    calls,          \* the finished calls of the entry points, oldest first
    \* ---- one call of TicketFetch.fetch_tickets, and one call of a classifier
    sync,           \* the locals of fetch_tickets: the tracker read, the
                    \* committed features, their linked keys, the rows
    probe           \* a classifier's argument and, once applied, its result

backoffVars == <<call>>
bulkVars == <<keys_arg, max_workers_arg, max_workers, backend, chunks, futures, consumed,
              key_to_issue, lookups, bulk_pc>>
reconVars == <<collection_present, docs, run, history, edits, faults, calls>>
syncVars == <<sync, probe>>
vars == <<call, keys_arg, max_workers_arg, max_workers, backend, chunks, futures, consumed,
          key_to_issue, lookups, bulk_pc, collection_present, docs, run, history,
          edits, faults, calls, sync, probe>>

-----------------------------------------------------------------------------
(* Bounds of the model *)

\* identifiers a bulk fetch is asked for
MaxKeys == 5
\* keys per JQL chunk: the class tunable CHUNK_SIZE (100 in the source), scaled
CHUNK_SIZE == 2
\* largest max_workers argument handed to the constructor
MaxWorkersArg == 2
\* force_refetch_and_update calls in one behaviour
MaxRuns == 2
\* user edits (comment appends, effort changes) in one behaviour
MaxEdits == 2
\* store calls that raise in one behaviour
MaxFaults == 1
\* calls of the entry points (balance, force_refetch_and_update,
\* load_data_no_cache) in one behaviour
MaxCalls == 2

(* Program constants *)

\* BACKOFF_BASE_SEC = 1.5, in milliseconds
BACKOFF_BASE_MS == 1500
BACKOFF_MAX_RETRIES == 4
\* the class default MAX_WORKERS
MAX_WORKERS == 6

KEY_NAMES == <<"A", "B", "C", "D", "E", "F", "G">>
Keys == {KEY_NAMES[i] : i \in 1..MaxKeys}

-----------------------------------------------------------------------------
(* Helpers *)

Range(s) == {s[i] : i \in DOMAIN s}

Min(a, b) == IF a <= b THEN a ELSE b

RECURSIVE Pow2(_)
Pow2(n) == IF n = 0 THEN 1 ELSE 2 * Pow2(n - 1)

CeilDiv(n, s) == (n + s - 1) \div s

RECURSIVE SumOver(_, _)
SumOver(f, S) ==
    IF S = {} THEN 0
    ELSE LET x == CHOOSE y \in S : TRUE IN f[x] + SumOver(f, S \ {x})

\* every order a Python set of the members of S may be iterated in
Orderings(S) ==
    {f \in [1..Cardinality(S) -> S] : \A i, j \in DOMAIN f : i # j => f[i] # f[j]}

-----------------------------------------------------------------------------
(* TicketFetch._search_issues_with_backoff *)

\* what one self.auth.search_issues call does: return, or raise a transient
\* (429, 5xx, network) or a permanent (400 malformed query, 401 bad auth) error
Outcomes == {"ok", "transient", "permanent"}

\* the two call sites: the feature query of fetch_tickets, a chunk of the bulk fetch
CallSites == {"features", "chunk"}

BackoffIdle ==
    [site |-> "none", attempt |-> 0, delay |-> 0, calls |-> <<>>,
     sleeps |-> <<>>, status |-> "idle"]

\* entry: delay = self.BACKOFF_BASE_SEC, the loop at attempt 0
BackoffBegin(site) ==
    [site |-> site, attempt |-> 0, delay |-> BACKOFF_BASE_MS, calls |-> <<>>,
     sleeps |-> <<>>, status |-> "running"]

\* one iteration of `for attempt in range(self.BACKOFF_MAX_RETRIES + 1)`
\* (the mutant gives up one failure late)
BackoffStepGiveUpLate(c, outcome) ==
    LET called == [c EXCEPT !.calls = Append(@, outcome)] IN
    IF outcome = "ok" THEN [called EXCEPT !.status = "returned"]
    ELSE IF c.attempt > BACKOFF_MAX_RETRIES THEN [called EXCEPT !.status = "raised"]
    ELSE [called EXCEPT !.sleeps = Append(@, c.delay),
                        !.delay = c.delay * 2,
                        !.attempt = c.attempt + 1]

BackoffStep(c, outcome) ==
    LET called == [c EXCEPT !.calls = Append(@, outcome)] IN
    IF outcome = "ok" THEN [called EXCEPT !.status = "returned"]
    ELSE IF c.attempt >= BACKOFF_MAX_RETRIES THEN [called EXCEPT !.status = "raised"]
    ELSE [called EXCEPT !.sleeps = Append(@, c.delay),
                        !.delay = c.delay * 2,
                        !.attempt = c.attempt + 1]

\* the whole call, given what each successive search_issues call does
RECURSIVE RunBackoff(_, _)
RunBackoff(c, outcomes) ==
    IF c.status # "running" \/ outcomes = <<>> THEN c
    ELSE RunBackoff(BackoffStep(c, Head(outcomes)), Tail(outcomes))

SearchBegin(site) ==
    /\ call.status = "idle"
    /\ call' = BackoffBegin(site)
    /\ UNCHANGED <<bulkVars, reconVars, syncVars>>

SearchAttempt(outcome) ==
    /\ call.status = "running"
    /\ call' = BackoffStep(call, outcome)
    /\ UNCHANGED <<bulkVars, reconVars, syncVars>>

-----------------------------------------------------------------------------
(* TicketFetch._chunked *)

\* the generator: items are appended to `chunk`, which is yielded once it holds
\* `size` items; a non-empty rest is yielded at the end
RECURSIVE ChunkedFrom(_, _, _)
ChunkedFrom(items, chunk, size) ==
    IF items = <<>> THEN (IF chunk # <<>> THEN <<chunk>> ELSE <<>>)
    ELSE LET c == Append(chunk, Head(items)) IN
         IF Len(c) >= size THEN <<c>> \o ChunkedFrom(Tail(items), <<>>, size)
         ELSE ChunkedFrom(Tail(items), c, size)

\* the mutant `len(chunk) > size`
ChunkedOffByOne(items, size) == ChunkedFrom(items, <<>>, size + 1)

Chunked(items, size) == ChunkedFrom(items, <<>>, size)

-----------------------------------------------------------------------------
(* TicketFetch.__init__ and TicketFetch._bulk_fetch_issues_by_keys *)

\* `if max_workers: self.MAX_WORKERS = max_workers` (None and 0 keep the default)
MaxWorkersInit(arg) == IF arg # 0 THEN arg ELSE MAX_WORKERS

\* `set(keys)` without the falsy members; the mutant keeps them
DedupKeysKeepEmpty(keys) == keys

DedupKeys(keys) == {k \in keys : k # ""}

\* the tracker's answer to "key in (...)": the records of the keys it resolves
Search(be, ks) == {be[k] : k \in ks \cap DOMAIN be}

\* the failing attempts a chunk lookup meets before its first success
FailPlans == {0, 1, BACKOFF_MAX_RETRIES + 1}

PlanOutcomes(plan) ==
    [i \in 1..(BACKOFF_MAX_RETRIES + 1) |-> IF i <= plan THEN "transient" ELSE "ok"]

\* fetch_chunk: one wrapped lookup of the chunk's keys
FetchChunk(be, chunk, plan) ==
    LET r == RunBackoff(BackoffBegin("chunk"), PlanOutcomes(plan)) IN
    [state |-> IF r.status = "returned" THEN "done" ELSE "failed",
     issues |-> IF r.status = "returned" THEN Search(be, Range(chunk)) ELSE {},
     calls |-> Len(r.calls)]

\* `for issue in issues: key_to_issue[issue.key] = issue`
\* (the mutant rebinds the mapping to the chunk's issues)
MergeIssuesOverwrite(map, issues) ==
    [k \in {i.key : i \in issues} |-> CHOOSE i \in issues : i.key = k]

MergeIssues(map, issues) ==
    [k \in DOMAIN map \cup {i.key : i \in issues} |->
        IF \E i \in issues : i.key = k
        THEN CHOOSE i \in issues : i.key = k
        ELSE map[k]]

\* the sequential dispatch path of lines 127-130 when no lookup raises
RECURSIVE SequentialMapping(_, _, _)
SequentialMapping(be, cs, map) ==
    IF cs = <<>> THEN map
    ELSE SequentialMapping(be, Tail(cs), MergeIssues(map, Search(be, Range(Head(cs)))))

\* the dispatch test of line 119
RunsParallel(workers, cs) == workers # 0 /\ workers > 1 /\ Len(cs) > 1

Pending(i) == [state |-> "pending", issues |-> {}, calls |-> 0]

InFlight == {i \in DOMAIN futures : futures[i].state = "running"}

\* lines 104-119: de-duplicate, chunk, choose the dispatch path
BulkStart ==
    /\ bulk_pc = "start"
    /\ \E order \in Orderings(DedupKeys(Range(keys_arg))) :
        IF order = <<>>
        THEN /\ bulk_pc' = "returned"
             /\ UNCHANGED <<chunks, futures, lookups>>
        ELSE /\ chunks' = Chunked(order, CHUNK_SIZE)
             /\ futures' = [i \in 1..Len(chunks') |-> Pending(i)]
             /\ lookups' = [i \in 1..Len(chunks') |-> 0]
             /\ bulk_pc' = IF RunsParallel(max_workers, chunks')
                           THEN "parallel" ELSE "sequential"
    /\ UNCHANGED <<call, reconVars, syncVars, keys_arg, max_workers_arg, max_workers, backend, consumed, key_to_issue>>

\* a pool thread takes the next submitted chunk off the work queue
WorkerStart(i) ==
    /\ bulk_pc \in {"parallel", "draining"}
    /\ i \in DOMAIN futures
    /\ futures[i].state = "pending"
    /\ \A j \in 1..(i - 1) : futures[j].state # "pending"
    /\ Cardinality(InFlight) < max_workers
    /\ futures' = [futures EXCEPT ![i].state = "running"]
    /\ UNCHANGED <<call, reconVars, syncVars, keys_arg, max_workers_arg, max_workers, backend, chunks, consumed,
                   key_to_issue, lookups, bulk_pc>>

\* the pool thread's fetch_chunk returns or raises; the future completes
WorkerFinish(i) ==
    /\ bulk_pc \in {"parallel", "draining"}
    /\ i \in DOMAIN futures
    /\ futures[i].state = "running"
    /\ \E plan \in FailPlans :
        LET r == FetchChunk(backend, chunks[i], plan) IN
        /\ futures' = [futures EXCEPT ![i] = r]
        /\ lookups' = [lookups EXCEPT ![i] = r.calls]
    /\ UNCHANGED <<call, reconVars, syncVars, keys_arg, max_workers_arg, max_workers, backend, chunks, consumed,
                   key_to_issue, bulk_pc>>

\* the mutant that merges what a failed lookup left and carries on
ConsumeSkipFailed(i) ==
    /\ bulk_pc = "parallel"
    /\ i \in DOMAIN futures
    /\ i \notin consumed
    /\ futures[i].state \in {"done", "failed"}
    /\ consumed' = consumed \cup {i}
    /\ key_to_issue' = MergeIssues(key_to_issue, futures[i].issues)
    /\ bulk_pc' = IF consumed' = DOMAIN futures THEN "returned" ELSE "parallel"
    /\ UNCHANGED <<call, reconVars, syncVars, keys_arg, max_workers_arg, max_workers, backend, chunks, futures, lookups>>

\* lines 122-125: the dispatching thread takes a completed future; fut.result()
\* returns the issues, which it merges, or re-raises the lookup's exception.
\* The mutant that takes every completed future at once and keeps one result:
ConsumeLatestOnly(i) ==
    /\ bulk_pc = "parallel"
    /\ i \in DOMAIN futures
    /\ i \notin consumed
    /\ futures[i].state \in {"done", "failed"}
    /\ consumed' = consumed \cup {j \in DOMAIN futures : futures[j].state \in {"done", "failed"}}
    /\ IF futures[i].state = "done"
       THEN /\ key_to_issue' = MergeIssues(key_to_issue, futures[i].issues)
            /\ bulk_pc' = IF consumed' = DOMAIN futures THEN "returned" ELSE "parallel"
       ELSE /\ bulk_pc' = "draining"
            /\ UNCHANGED key_to_issue
    /\ UNCHANGED <<call, reconVars, syncVars, keys_arg, max_workers_arg, max_workers, backend, chunks, futures, lookups>>

Consume(i) ==
    /\ bulk_pc = "parallel"
    /\ i \in DOMAIN futures
    /\ i \notin consumed
    /\ futures[i].state \in {"done", "failed"}
    /\ consumed' = consumed \cup {i}
    /\ IF futures[i].state = "done"
       THEN /\ key_to_issue' = MergeIssues(key_to_issue, futures[i].issues)
            /\ bulk_pc' = IF consumed' = DOMAIN futures THEN "returned" ELSE "parallel"
       ELSE /\ bulk_pc' = "draining"
            /\ UNCHANGED key_to_issue
    /\ UNCHANGED <<call, reconVars, syncVars, keys_arg, max_workers_arg, max_workers, backend, chunks, futures, lookups>>

\* the exception leaves the `with` block: the executor's exit waits for the
\* lookups still queued or running, then the exception reaches the caller
DrainDone ==
    /\ bulk_pc = "draining"
    /\ \A i \in DOMAIN futures : futures[i].state \in {"done", "failed"}
    /\ bulk_pc' = "raised"
    /\ UNCHANGED <<call, reconVars, syncVars, keys_arg, max_workers_arg, max_workers, backend, chunks, futures, consumed,
                   key_to_issue, lookups>>

\* lines 127-130: the next chunk, fetched and merged by the calling thread
SequentialStep ==
    /\ bulk_pc = "sequential"
    /\ LET i == Cardinality(consumed) + 1 IN
       \E plan \in FailPlans :
        LET r == FetchChunk(backend, chunks[i], plan) IN
        /\ futures' = [futures EXCEPT ![i] = r]
        /\ lookups' = [lookups EXCEPT ![i] = r.calls]
        /\ consumed' = consumed \cup {i}
        /\ IF r.state = "done"
           THEN /\ key_to_issue' = MergeIssues(key_to_issue, r.issues)
                /\ bulk_pc' = IF i = Len(chunks) THEN "returned" ELSE "sequential"
           ELSE /\ bulk_pc' = "raised"
                /\ UNCHANGED key_to_issue
    /\ UNCHANGED <<call, reconVars, syncVars, keys_arg, max_workers_arg, max_workers, backend, chunks>>

-----------------------------------------------------------------------------
(* The tracker's records, as the jira client hands them over.  An optional   *)
(* attribute is a sequence: <<>> when it is None or absent, <<v>> otherwise. *)

COMPRISED_OF_TASK == "Comprised of Task"
TRIAGE_SENTINEL == "73317"

\* a link of a feature: its type's inward label and the issue on one side
FeatureLink(inward, side, key) ==
    [inward |-> inward,
     inwardIssue |-> IF side = "inwardIssue" THEN <<[key |-> key]>> ELSE <<>>,
     outwardIssue |-> IF side = "outwardIssue" THEN <<[key |-> key]>> ELSE <<>>]

\* `a or b` on two optional attributes
OrElse(a, b) == IF a # <<>> THEN a ELSE b

-----------------------------------------------------------------------------
(* TicketFetch.get_qa_committed_tasks: re.compile(r'#teams_committed.*?QA',  *)
(* re.IGNORECASE).search(desc).  A description is a sequence of tokens; "." *)
(* matches any character but a newline.                                      *)

NEWLINE == "\n"
TagTokens == {"#teams_committed", "#Teams_Committed"}
QaTokens == {"QA", "qa"}

QaCommittedPattern(desc) ==
    \E i, j \in DOMAIN desc :
        /\ i < j
        /\ desc[i] \in TagTokens
        /\ desc[j] \in QaTokens
        /\ \A m \in (i + 1)..(j - 1) : desc[m] # NEWLINE

\* `desc = getattr(t.fields, 'description', '') or ''`, then the search
IsQaCommitted(feature) ==
    LET desc == IF feature.description = <<>> THEN <<>> ELSE feature.description[1]
    IN QaCommittedPattern(desc)

\* the mutant selects every feature
GetEveryTask(feature_tasks) == feature_tasks

GetQaCommittedTasks(feature_tasks) == SelectSeq(feature_tasks, IsQaCommitted)

-----------------------------------------------------------------------------
(* TicketFetch._collect_candidate_linked_keys *)

\* the mutant takes the linked key of every link, whatever its label
RECURSIVE CollectFromAnyLabel(_)
CollectFromAnyLabel(links) ==
    IF links = <<>> THEN <<>>
    ELSE LET link == Head(links)
             linked_issue == OrElse(link.inwardIssue, link.outwardIssue)
         IN (IF linked_issue # <<>> /\ linked_issue[1].key # ""
             THEN <<linked_issue[1].key>> ELSE <<>>)
            \o CollectFromAnyLabel(Tail(links))

RECURSIVE CollectFrom(_)
CollectFrom(links) ==
    IF links = <<>> THEN <<>>
    ELSE LET link == Head(links)
             linked_issue == OrElse(link.inwardIssue, link.outwardIssue)
         IN (IF /\ linked_issue # <<>>
                /\ link.inward = COMPRISED_OF_TASK
                /\ linked_issue[1].key # ""
             THEN <<linked_issue[1].key>> ELSE <<>>)
            \o CollectFrom(Tail(links))

CollectCandidateLinkedKeys(feature) == CollectFrom(feature.issuelinks)

-----------------------------------------------------------------------------
(* TicketFetch._qa_filter *)

\* `fields = issue_obj.fields` raises on a record that carries no fields
HasFields(issue) == {"issuetype", "customfield_14308", "status"} \subseteq DOMAIN issue

\* the mutant does not look at the issue type
QaFilterAnyType(issue) ==
    IF ~HasFields(issue) THEN FALSE
    ELSE
    LET triage == issue.customfield_14308
        triage_ok ==
            IF triage.kind = "list" /\ Len(triage.items) > 0
            THEN triage.items[1] = TRIAGE_SENTINEL
            ELSE IF triage.kind = "str" THEN triage.items[1] = TRIAGE_SENTINEL
            ELSE FALSE
    IN triage_ok /\ issue.status # <<"Rejected">>

\* customfield_14308: a list, a bare string (items holds it), or None; an
\* exception inside the try block makes the filter return False
QaFilter(issue) ==
    IF ~HasFields(issue) THEN FALSE
    ELSE
    LET issuetype_ok == issue.issuetype = <<"Task">>
        triage == issue.customfield_14308
        triage_ok ==
            IF triage.kind = "list" /\ Len(triage.items) > 0
            THEN triage.items[1] = TRIAGE_SENTINEL
            ELSE IF triage.kind = "str" THEN triage.items[1] = TRIAGE_SENTINEL
            ELSE FALSE
    IN issuetype_ok /\ triage_ok /\ issue.status # <<"Rejected">>

-----------------------------------------------------------------------------
(* TicketFetch.get_task_details *)

NA == "NA"

\* getattr(x, 'name', 'NA') on an optional name
NameOr(opt, default) == IF opt = <<>> THEN default ELSE opt[1]

\* ", ".join(labels)
RECURSIVE JoinLabels(_)
JoinLabels(labels) ==
    IF Len(labels) = 1 THEN labels[1]
    ELSE labels[1] \o ", " \o JoinLabels(Tail(labels))

AutoTokens == {"auto", "Automation"}
TmsTokens == {"tms", "TMS"}
AutoPattern(summary) == \E i \in DOMAIN summary : summary[i] \in AutoTokens
TmsPattern(summary) == \E i \in DOMAIN summary : summary[i] \in TmsTokens

\* the mutant lets every match overwrite the one before
ScanLinkedLastWins(row, linked) ==
    IF linked = <<>> THEN row
    ELSE IF linked[1].issuetype # <<"Task">> THEN row
    ELSE
        LET li == linked[1]
            status_name == NameOr(li.status, NA)
            key == NameOr(li.key, NA)
            with_auto ==
                IF li.summary # <<>> /\ AutoPattern(li.summary)
                THEN [row EXCEPT !.Auto_task = key, !.Auto_status = status_name]
                ELSE row
        IN  IF li.summary # <<>> /\ TmsPattern(li.summary)
            THEN [with_auto EXCEPT !.TMS_task = key, !.TMS_status = status_name]
            ELSE with_auto

\* the body of `for issue_side in (...)` for one linked issue
ScanLinked(row, linked) ==
    IF linked = <<>> THEN row
    ELSE IF linked[1].issuetype # <<"Task">> THEN row
    ELSE
        LET li == linked[1]
            status_name == NameOr(li.status, NA)
            key == NameOr(li.key, NA)
            with_auto ==
                IF li.summary # <<>> /\ AutoPattern(li.summary) /\ row.Auto_task = NA
                THEN [row EXCEPT !.Auto_task = key, !.Auto_status = status_name]
                ELSE row
        IN  IF li.summary # <<>> /\ TmsPattern(li.summary) /\ with_auto.TMS_task = NA
            THEN [with_auto EXCEPT !.TMS_task = key, !.TMS_status = status_name]
            ELSE with_auto

BothFound(row) == row.Auto_task # NA /\ row.TMS_task # NA

\* one link: the inward side, then (unless both are found: `break`) the outward side
ScanLink(row, link) ==
    LET after_inward == ScanLinked(row, link.inwardIssue) IN
    IF link.inwardIssue # <<>> /\ link.inwardIssue[1].issuetype = <<"Task">>
       /\ BothFound(after_inward)
    THEN after_inward
    ELSE ScanLinked(after_inward, link.outwardIssue)

RECURSIVE ScanLinks(_, _)
ScanLinks(row, links) ==
    IF links = <<>> THEN row ELSE ScanLinks(ScanLink(row, Head(links)), Tail(links))

\* the mutant gives every row the feature's key as its identity
GetTaskDetailsBareId(feature_task, qa_task) ==
    LET row == [
            _id |-> feature_task.key,
            Feature_status |-> NameOr(feature_task.status, NA),
            Feature_summary |-> feature_task.summary,
            QA_task |-> NA, QA_status |-> NA, QA_assignee |-> NA, QA_labels |-> NA,
            Auto_task |-> NA, Auto_status |-> NA, TMS_task |-> NA, TMS_status |-> NA,
            comments |-> <<>>]
    IN  IF qa_task = <<>> THEN row
        ELSE
            LET qa == qa_task[1]
                qa_row == [row EXCEPT
                    !.QA_task = qa.key,
                    !.QA_status = NameOr(qa.status, NA),
                    !.QA_assignee = NameOr(qa.assignee, NA),
                    !.QA_labels = IF qa.labels # <<>> THEN JoinLabels(qa.labels) ELSE NA]
            IN ScanLinks(qa_row, qa.issuelinks)

\* qa_task is optional: <<>> for None
GetTaskDetails(feature_task, qa_task) ==
    LET row == [
            _id |-> IF qa_task # <<>>
                    THEN feature_task.key \o "|" \o qa_task[1].key
                    ELSE feature_task.key,
            Feature_status |-> NameOr(feature_task.status, NA),
            Feature_summary |-> feature_task.summary,
            QA_task |-> NA, QA_status |-> NA, QA_assignee |-> NA, QA_labels |-> NA,
            Auto_task |-> NA, Auto_status |-> NA, TMS_task |-> NA, TMS_status |-> NA,
            comments |-> <<>>]
    IN  IF qa_task = <<>> THEN row
        ELSE
            LET qa == qa_task[1]
                qa_row == [row EXCEPT
                    !.QA_task = qa.key,
                    !.QA_status = NameOr(qa.status, NA),
                    !.QA_assignee = NameOr(qa.assignee, NA),
                    !.QA_labels = IF qa.labels # <<>> THEN JoinLabels(qa.labels) ELSE NA]
            IN ScanLinks(qa_row, qa.issuelinks)

-----------------------------------------------------------------------------
(* TicketFetch.fetch_tickets, after the feature query has returned.  A       *)
(* tracker is [features: the query's result list, issues: key -> record].    *)

\* step 3: all_linked_keys
AllLinkedKeys(features) ==
    UNION {Range(CollectCandidateLinkedKeys(features[i])) : i \in DOMAIN features}

\* step 4: the mapping a bulk fetch that does not raise returns
LinkedIssuesMap(keys, issues) ==
    LET ks == DedupKeys(keys)
        order == CHOOSE o \in Orderings(ks) : TRUE
    IN SequentialMapping(issues, Chunked(order, CHUNK_SIZE), <<>>)

\* the rows of one feature: one per linked key that resolves to a QA task
RECURSIVE RowsForKeys(_, _, _)
RowsForKeys(feature_task, keys, map) ==
    IF keys = <<>> THEN <<>>
    ELSE LET k == Head(keys) IN
         (IF k \in DOMAIN map /\ QaFilter(map[k])
          THEN <<GetTaskDetails(feature_task, <<map[k]>>)>> ELSE <<>>)
         \o RowsForKeys(feature_task, Tail(keys), map)

\* `if not qa_added: rows.append(self.get_task_details(feature_task, None))`
RowsForFeature(feature_task, map) ==
    LET with_qa == RowsForKeys(feature_task, CollectCandidateLinkedKeys(feature_task), map)
    IN IF with_qa # <<>> THEN with_qa ELSE <<GetTaskDetails(feature_task, <<>>)>>

RECURSIVE BuildRows(_, _)
BuildRows(features, map) ==
    IF features = <<>> THEN <<>>
    ELSE RowsForFeature(Head(features), map) \o BuildRows(Tail(features), map)

FetchRows(tracker) ==
    LET qa_committed_features == GetQaCommittedTasks(tracker.features)
        linked_issues_map ==
            LinkedIssuesMap(AllLinkedKeys(qa_committed_features), tracker.issues)
    IN BuildRows(qa_committed_features, linked_issues_map)

-----------------------------------------------------------------------------
(* The original fetcher (packages/ticketfetchers/ticket_fetcher.py), which    *)
(* looks each child up with a call of its own.  It is defined on trackers    *)
(* that resolve every linked key.                                            *)

\* lines 48-61 for one side of a link: every match overwrites
OriginalScanLinked(row, linked) ==
    IF linked = <<>> THEN row
    ELSE IF linked[1].issuetype # <<"Task">> THEN row
    ELSE
        LET li == linked[1]
            with_auto ==
                IF AutoPattern(li.summary)
                THEN [row EXCEPT !.Auto_task = li.key[1], !.Auto_status = li.status[1]]
                ELSE row
        IN  IF TmsPattern(li.summary)
            THEN [with_auto EXCEPT !.TMS_task = li.key[1], !.TMS_status = li.status[1]]
            ELSE with_auto

RECURSIVE OriginalScanLinks(_, _)
OriginalScanLinks(row, links) ==
    IF links = <<>> THEN row
    ELSE OriginalScanLinks(
            OriginalScanLinked(OriginalScanLinked(row, Head(links).inwardIssue),
                               Head(links).outwardIssue),
            Tail(links))

\* str(None), what the assignee column holds for an unassigned task
NONE == "None"

\* lines 18-64; the assignee is stored as the tracker gives it, the labels
\* joined even when there are none
OriginalGetTaskDetails(feature_task, qa_task) ==
    LET row == [
            Feature_task |-> feature_task.key,
            Feature_status |-> feature_task.status[1],
            Feature_summary |-> feature_task.summary,
            QA_task |-> NA, QA_status |-> NA, QA_assignee |-> NA, QA_labels |-> NA,
            Auto_task |-> NA, Auto_status |-> NA, TMS_task |-> NA, TMS_status |-> NA]
    IN  IF qa_task = <<>> THEN row
        ELSE
            LET qa == qa_task[1]
                qa_row == [row EXCEPT
                    !.QA_task = qa.key,
                    !.QA_status = qa.status[1],
                    !.QA_assignee = NameOr(qa.assignee, NONE),
                    !.QA_labels = IF qa.labels # <<>> THEN JoinLabels(qa.labels) ELSE ""]
            IN OriginalScanLinks(qa_row, qa.issuelinks)

\* line 93: `triage_field and triage_field[0] == '73317'`; the first element
\* of a bare string is its first character
OriginalTriageOk(triage) ==
    triage.kind = "list" /\ triage.items # <<>> /\ triage.items[1] = TRIAGE_SENTINEL

\* lines 85-97 for the links of one feature
RECURSIVE OriginalRowsForLinks(_, _, _)
OriginalRowsForLinks(feature_task, links, issues) ==
    IF links = <<>> THEN <<>>
    ELSE LET link == Head(links)
             linked_issue == OrElse(link.inwardIssue, link.outwardIssue)
             task_info == issues[linked_issue[1].key]
         IN (IF /\ link.inward = COMPRISED_OF_TASK
                /\ linked_issue # <<>>
                /\ task_info.issuetype = <<"Task">>
                /\ OriginalTriageOk(task_info.customfield_14308)
                /\ task_info.status # <<"Rejected">>
             THEN <<OriginalGetTaskDetails(feature_task, <<task_info>>)>> ELSE <<>>)
            \o OriginalRowsForLinks(feature_task, Tail(links), issues)

\* lines 82-102
RECURSIVE OriginalRows(_, _)
OriginalRows(features, issues) ==
    IF features = <<>> THEN <<>>
    ELSE LET with_qa == OriginalRowsForLinks(Head(features), Head(features).issuelinks,
                                             issues)
         IN (IF with_qa # <<>> THEN with_qa
             ELSE <<OriginalGetTaskDetails(Head(features), <<>>)>>)
            \o OriginalRows(Tail(features), issues)

\* lines 66-75: re.search on a description that is None raises TypeError
OriginalGetQaCommittedTask(feature_tasks) ==
    SelectSeq(feature_tasks, LAMBDA t : QaCommittedPattern(t.description[1]))

\* lines 77-105
OriginalFetchTickets(tracker) ==
    IF \E i \in DOMAIN tracker.features : tracker.features[i].description = <<>>
    THEN [status |-> "raised", rows |-> <<>>]
    ELSE [status |-> "returned",
          rows |-> OriginalRows(OriginalGetQaCommittedTask(tracker.features),
                                tracker.issues)]

-----------------------------------------------------------------------------
(* The tracker contents the store's clients fetch from *)

UNSET == "unset"

DescCommitted == <<"#teams_committed", "by", "QA">>
DescPlain == <<"no", "marker">>

\* a task linked from a QA task, as embedded in the QA task's issuelinks
LinkedTask(key, summary, status) ==
    <<[key |-> <<key>>, issuetype |-> <<"Task">>, summary |-> summary,
       status |-> <<status>>]>>

\* a qualifying QA task; its second version has moved on in every field
QaIssue(key, v) ==
    [key |-> key,
     issuetype |-> <<"Task">>,
     customfield_14308 |-> [kind |-> "list", items |-> <<TRIAGE_SENTINEL>>],
     status |-> IF v = 1 THEN <<"Open">> ELSE <<"In Progress">>,
     assignee |-> IF v = 1 THEN <<>> ELSE <<"Asha">>,
     labels |-> IF v = 1 THEN <<>> ELSE <<"qa", "rocm">>,
     issuelinks |->
        IF v = 1 THEN <<>>
        ELSE <<[inwardIssue |-> <<>>,
                outwardIssue |-> LinkedTask("SWDEV-20", <<"Automation">>, "Open")],
               [inwardIssue |-> LinkedTask("SWDEV-21", <<"TMS", "cases">>, "Done"),
                outwardIssue |-> <<>>]>>]

QA_A == "SWDEV-10"
QA_B == "SWDEV-11"

Shapes == {"uncommitted", "bare", "two", "twice"}

\* the links of the feature: none, two QA tasks, or the same QA task linked in
\* both directions
ShapeLinks(shape) ==
    IF shape = "two"
    THEN <<FeatureLink(COMPRISED_OF_TASK, "outwardIssue", QA_A),
           FeatureLink(COMPRISED_OF_TASK, "outwardIssue", QA_B)>>
    ELSE IF shape = "twice"
    THEN <<FeatureLink(COMPRISED_OF_TASK, "outwardIssue", QA_A),
           FeatureLink(COMPRISED_OF_TASK, "inwardIssue", QA_A)>>
    ELSE <<>>

SyncTracker(shape, v) ==
    [features |->
        <<[key |-> "SWDEV-1",
           status |-> IF v = 1 THEN <<"Open">> ELSE <<"Closed">>,
           summary |-> IF v = 1 THEN "fp8 gemm" ELSE "fp8 gemm (rescoped)",
           description |-> IF shape = "uncommitted" THEN <<DescPlain>>
                           ELSE <<DescCommitted>>,
           issuelinks |-> ShapeLinks(shape)]>>,
     issues |-> [k \in {QA_A, QA_B} |-> QaIssue(k, v)]]

\* what the tracker holds when a sync reads it: each shape as first seen, and
\* the two QA tasks again after every field has moved on
SyncTrackers ==
    {SyncTracker(shape, 1) : shape \in Shapes} \cup {SyncTracker("two", 2)}

\* every _id a sync of these trackers can build
TicketIds == {"SWDEV-1", "SWDEV-1|SWDEV-10", "SWDEV-1|SWDEV-11"}

\* the rows the user edits, and what the user writes: the k-th edit's comment
\* text, and a size tier of the effort selector
EditTargets == {"SWDEV-1", "SWDEV-1|SWDEV-10"}
CommentTexts == <<"c1", "c2", "c3", "c4">>
Efforts == {"M"}

-----------------------------------------------------------------------------
(* fetch_tickets' return value with is_json=True, and json.loads of it *)

\* df.to_json(orient="records"): a string, "[]" at the least
ToJson(rows) == [length |-> 2 + Len(rows), records |-> rows]

\* `not data or len(data) == 0`
NoData(data) == data.length = 0

JsonLoads(data) == data.records

-----------------------------------------------------------------------------
(* Database (packages/database/schema.py) *)

\* the document insert_many stores for a ticket: the row; no Effort yet
DocOf(ticket) ==
    [f \in DOMAIN ticket \cup {"Effort"} |-> IF f = "Effort" THEN UNSET ELSE ticket[f]]

\* find_one({"_id": id}) is not None
DbFound(ds, id) == id \in DOMAIN ds

\* find_one({"_id": id}): the document, or None
DbFind(ds, id) == IF id \in DOMAIN ds THEN <<ds[id]>> ELSE <<>>

\* insert_many([ticket]) on a collection that does not hold the _id
DbInsert(ds, ticket) ==
    [i \in DOMAIN ds \cup {ticket._id} |-> IF i = ticket._id THEN DocOf(ticket) ELSE ds[i]]

\* update_one({"_id": id}, {"$set": data}); the mutant replaces the document
DbUpdateReplace(ds, id, data) ==
    IF id \in DOMAIN ds
    THEN [ds EXCEPT ![id] =
            [f \in DOMAIN data \cup {"_id", "comments", "Effort"} |->
                IF f \in DOMAIN data THEN data[f]
                ELSE IF f = "_id" THEN id
                ELSE IF f = "comments" THEN <<>> ELSE UNSET]]
    ELSE ds

DbUpdate(ds, id, data) ==
    IF id \in DOMAIN ds
    THEN [ds EXCEPT ![id] =
            [f \in DOMAIN @ \cup DOMAIN data |->
                IF f \in DOMAIN data THEN data[f] ELSE @[f]]]
    ELSE ds

\* update_one({"_id": id}, {"$push": {"comments": data}}); the mutant puts the
\* new comment first
DbUpdateCommentsPrepend(ds, id, data) ==
    IF id \in DOMAIN ds
    THEN [ds EXCEPT ![id].comments = <<data>> \o @]
    ELSE ds

DbUpdateComments(ds, id, data) ==
    IF id \in DOMAIN ds
    THEN [ds EXCEPT ![id].comments = Append(@, data)]
    ELSE ds

\* update_one({"_id": id}, {"$set": {"Effort": data}})
DbUpdateEffort(ds, id, data) ==
    IF id \in DOMAIN ds THEN [ds EXCEPT ![id].Effort = data] ELSE ds

-----------------------------------------------------------------------------
(* force_refetch_and_update (packages/help.py) *)

SyncFields ==
    {"Feature_status", "Feature_summary", "QA_task", "QA_status", "QA_assignee",
     "QA_labels", "Auto_task", "Auto_status", "TMS_task", "TMS_status"}

\* the update payload of lines 62-73; the mutant forgets the feature's status
UpdateDataStale(ticket) == [f \in SyncFields \ {"Feature_status"} |-> ticket[f]]

UpdateData(ticket) == [f \in SyncFields |-> ticket[f]]

RunIdle ==
    [pc |-> "idle", tickets |-> <<>>, idx |-> 0, existing |-> <<>>,
     updated_count |-> 0, inserted_count |-> 0, error_count |-> 0,
     start_ids |-> {}, failed |-> {}]

\* what a finished call leaves behind: its batch, the _ids the collection held
\* when it began, the tickets it got to, those whose store call raised, its
\* counters, its return value and the collection as it left it
Finished(r, path, result, ds) ==
    [tickets |-> r.tickets, start_ids |-> r.start_ids, processed |-> r.idx,
     failed |-> r.failed, updated |-> r.updated_count,
     inserted |-> r.inserted_count, errors |-> r.error_count,
     path |-> path, result |-> result, end_docs |-> ds]

\* the ways out of the call: line 22 (no collection), line 29 (the fetch
\* raises), line 34 (no data), line 101 (the summary), or an exception that
\* leaves the loop
Paths == {"no collection", "fetch raised", "no data", "summary", "raised"}

\* the value returned: "True", "False", or none when an exception leaves
PyBool(b) == IF b THEN "True" ELSE "False"
RAISED == "exception"

\* line 101; the mutant reports success when no record failed
SummaryNoErrors(r, ds) ==
    Finished(r, "summary", PyBool(r.error_count = 0), ds)

Summary(r, ds) ==
    Finished(r, "summary", PyBool(r.updated_count + r.inserted_count > 0), ds)

\* the `except Exception` of lines 92-94
Failed(r) == [r EXCEPT !.error_count = @ + 1, !.failed = @ \cup {r.idx}]

\* the end of one iteration: the next ticket, or lines 96-101 after the last.
\* The mutant lets the exception of a failed ticket leave the loop:
AdvanceAbort(r, ds) ==
    IF r.idx \in r.failed
    THEN /\ history' = Append(history, Finished(r, "raised", RAISED, ds))
         /\ run' = RunIdle
    ELSE IF r.idx < Len(r.tickets)
    THEN /\ run' = [r EXCEPT !.idx = r.idx + 1, !.pc = "find"]
         /\ UNCHANGED history
    ELSE /\ history' = Append(history, Summary(r, ds))
         /\ run' = RunIdle

Advance(r, ds) ==
    IF r.idx < Len(r.tickets)
    THEN /\ run' = [r EXCEPT !.idx = r.idx + 1, !.pc = "find"]
         /\ UNCHANGED history
    ELSE /\ history' = Append(history, Summary(r, ds))
         /\ run' = RunIdle

\* lines 15-48: the collection check, the fetch, the parse, the counters
RefreshBegin ==
    /\ run.pc = "idle"
    /\ Len(history) < MaxRuns
    /\ IF ~collection_present
       THEN /\ history' = Append(history, Finished(RunIdle, "no collection", "False", docs))
            /\ UNCHANGED run
       ELSE \/ \* line 29: fetch_tickets raises, and nothing here catches it
               /\ history' = Append(history, Finished(RunIdle, "fetch raised", RAISED, docs))
               /\ UNCHANGED run
            \/ \E tracker \in SyncTrackers :
                 LET data == ToJson(FetchRows(tracker))
                     tickets == JsonLoads(data)
                     r == [RunIdle EXCEPT !.tickets = tickets, !.start_ids = DOMAIN docs]
                 IN IF NoData(data)
                    THEN /\ history' = Append(history, Finished(RunIdle, "no data", "False", docs))
                         /\ UNCHANGED run
                    ELSE IF tickets = <<>>
                    THEN /\ history' = Append(history, Summary(r, docs))
                         /\ UNCHANGED run
                    ELSE /\ run' = [r EXCEPT !.pc = "find", !.idx = 1]
                         /\ UNCHANGED history
    /\ UNCHANGED <<call, bulkVars, syncVars, collection_present, docs, edits, faults, calls>>

\* lines 52-58: the ticket's _id and the lookup of its document
RefreshFind ==
    /\ run.pc = "find"
    /\ LET ticket == run.tickets[run.idx] IN
       IF ticket._id = ""
       THEN /\ Advance(run, docs)
            /\ UNCHANGED faults
       ELSE \/ /\ run' = [run EXCEPT !.pc = "write",
                                     !.existing = DbFind(docs, ticket._id)]
               /\ UNCHANGED <<history, faults>>
            \/ /\ faults < MaxFaults
               /\ faults' = faults + 1
               /\ Advance(Failed(run), docs)
    /\ UNCHANGED <<call, bulkVars, syncVars, collection_present, docs, edits, calls>>

\* the mutant writes the document it found back, with the fetched fields
RefreshWriteBack ==
    /\ run.pc = "write"
    /\ LET ticket == run.tickets[run.idx] IN
       \/ /\ run.existing # <<>>
          /\ docs' = [docs EXCEPT ![ticket._id] =
                        [f \in DOMAIN run.existing[1] |->
                            IF f \in SyncFields THEN ticket[f] ELSE run.existing[1][f]]]
          /\ Advance([run EXCEPT !.updated_count = @ + 1], docs')
          /\ UNCHANGED <<collection_present, faults>>
       \/ /\ run.existing = <<>>
          /\ ~DbFound(docs, ticket._id)
          /\ docs' = DbInsert(docs, ticket)
          /\ collection_present' = TRUE
          /\ Advance([run EXCEPT !.inserted_count = @ + 1], docs')
          /\ UNCHANGED faults
       \/ /\ run.existing = <<>>
          /\ DbFound(docs, ticket._id)
          /\ Advance(Failed(run), docs)
          /\ UNCHANGED <<collection_present, docs, faults>>
       \/ /\ faults < MaxFaults
          /\ faults' = faults + 1
          /\ Advance(Failed(run), docs)
          /\ UNCHANGED <<collection_present, docs>>
    /\ UNCHANGED <<call, bulkVars, syncVars, edits, calls>>

\* lines 60-94: the update of the found document, or the insert of the ticket;
\* either store call may raise, and insert_many raises on an _id that a
\* concurrent writer has inserted since the lookup
RefreshWrite ==
    /\ run.pc = "write"
    /\ LET ticket == run.tickets[run.idx] IN
       \/ /\ run.existing # <<>>
          /\ docs' = DbUpdate(docs, ticket._id, UpdateData(ticket))
          /\ Advance([run EXCEPT !.updated_count = @ + 1], docs')
          /\ UNCHANGED <<collection_present, faults>>
       \/ /\ run.existing = <<>>
          /\ ~DbFound(docs, ticket._id)
          /\ docs' = DbInsert(docs, ticket)
          /\ collection_present' = TRUE
          /\ Advance([run EXCEPT !.inserted_count = @ + 1], docs')
          /\ UNCHANGED faults
       \/ /\ run.existing = <<>>
          /\ DbFound(docs, ticket._id)
          /\ Advance(Failed(run), docs)
          /\ UNCHANGED <<collection_present, docs, faults>>
       \/ /\ faults < MaxFaults
          /\ faults' = faults + 1
          /\ Advance(Failed(run), docs)
          /\ UNCHANGED <<collection_present, docs>>
    /\ UNCHANGED <<call, bulkVars, syncVars, edits, calls>>

-----------------------------------------------------------------------------
(* The user's edits: comments_addition (packages/help.py) and update_effort *)

CommentsAddition(ticket_id) ==
    /\ edits < MaxEdits
    /\ edits' = edits + 1
    /\ docs' = DbUpdateComments(docs, ticket_id, CommentTexts[edits + 1])
    /\ UNCHANGED <<call, bulkVars, syncVars, collection_present, run, history, faults, calls>>

UpdateEffort(ticket_id, effort) ==
    /\ edits < MaxEdits
    /\ edits' = edits + 1
    /\ docs' = DbUpdateEffort(docs, ticket_id, effort)
    /\ UNCHANGED <<call, bulkVars, syncVars, collection_present, run, history, faults, calls>>

-----------------------------------------------------------------------------
(* The entry points, each call taken whole: balance and                      *)
(* force_refetch_and_update (packages/help.py), load_data_no_cache (app.py)  *)

\* a committed feature whose key is empty: its row carries no identity, the
\* case lines 52-55 of force_refetch_and_update look for
KeylessTracker ==
    [features |->
        <<[key |-> "", status |-> <<"Open">>, summary |-> "fp8 gemm",
           description |-> <<DescCommitted>>, issuelinks |-> <<>>]>>,
     issues |-> [k \in {QA_A, QA_B} |-> QaIssue(k, 1)]]

\* what the tracker holds when an entry point fetches: no committed feature,
\* a feature with two QA tasks, a feature linked twice to one QA task, and the
\* keyless feature
EntryTrackerNames == {"uncommitted", "two", "twice", "keyless"}

EntryTracker(name) ==
    IF name = "keyless" THEN KeylessTracker ELSE SyncTracker(name, 1)

\* the row the user edits between the calls
EntryEditTargets == {"SWDEV-1|SWDEV-10"}

\* tf.fetch_tickets(): the rows built from the tracker, or the exception that
\* _search_issues_with_backoff re-raises once its attempts are spent
FetchOutcomes ==
    {[ok |-> TRUE, tracker |-> name] : name \in EntryTrackerNames}
        \cup {[ok |-> FALSE, tracker |-> "none"]}

\* the rows fetch_tickets builds from each tracker
EntryRows == [name \in EntryTrackerNames |-> FetchRows(EntryTracker(name))]

\* the rows a fetch that did not raise hands back
OutcomeRows(outcome) == IF outcome.ok THEN EntryRows[outcome.tracker] ELSE <<>>

\* list(db.find_all())
FindAll(ds) == {ds[id] : id \in DOMAIN ds}

\* insert_many(tickets), ordered: the documents go in one by one, and the call
\* raises at the first _id the collection already holds
RECURSIVE InsertMany(_, _)
InsertMany(ds, tickets) ==
    IF tickets = <<>> THEN [docs |-> ds, raised |-> FALSE]
    ELSE IF DbFound(ds, Head(tickets)._id) THEN [docs |-> ds, raised |-> TRUE]
    ELSE InsertMany(DbInsert(ds, Head(tickets)), Tail(tickets))

\* A mutant of insert_many that loses the last document of the batch:
DbInsertAllButLast(ds, tickets) ==
    IF tickets = <<>> THEN [docs |-> ds, raised |-> TRUE]
    ELSE InsertMany(ds, SubSeq(tickets, 1, Len(tickets) - 1))

\* Database.insert: insert_many raises on an empty list
DbInsertAll(ds, tickets) ==
    IF tickets = <<>> THEN [docs |-> ds, raised |-> TRUE] ELSE InsertMany(ds, tickets)

\* the loop of lines 50-94 from ticket i on; `bad` are the tickets whose store
\* call raises
RECURSIVE ReconcileFrom(_, _, _, _)
ReconcileFrom(acc, tickets, i, bad) ==
    IF i > Len(tickets) THEN acc
    ELSE LET ticket == tickets[i]
             after ==
                IF ticket._id = "" THEN acc
                ELSE IF i \in bad THEN [acc EXCEPT !.error_count = @ + 1]
                ELSE IF DbFound(acc.docs, ticket._id)
                THEN [acc EXCEPT !.docs = DbUpdate(@, ticket._id, UpdateData(ticket)),
                                 !.updated_count = @ + 1]
                ELSE [acc EXCEPT !.docs = DbInsert(@, ticket),
                                 !.inserted_count = @ + 1]
         IN ReconcileFrom(after, tickets, i + 1, bad)

\* the tickets of a batch whose processing makes a store call
StoreCalls(tickets) == {i \in DOMAIN tickets : tickets[i]._id # ""}

BadSets(tickets) ==
    {bad \in SUBSET StoreCalls(tickets) : faults + Cardinality(bad) <= MaxFaults}

NoCounts == [updated |-> 0, inserted |-> 0, errors |-> 0]

\* Two mutants of the call: one skips the collection check of lines 19-22, one
\* first drops the documents whose _id is not in the fetched batch.
ForceRefetchUnchecked(present, ds, outcome, bad) ==
    IF ~outcome.ok
    THEN [path |-> "fetch raised", result |-> RAISED, fetches |-> 1,
          tickets |-> <<>>, counts |-> NoCounts, docs |-> ds]
    ELSE
        LET tickets == JsonLoads(ToJson(OutcomeRows(outcome)))
            acc == ReconcileFrom([docs |-> ds, updated_count |-> 0,
                                  inserted_count |-> 0, error_count |-> 0],
                                 tickets, 1, bad)
        IN [path |-> "summary",
            result |-> PyBool(acc.updated_count + acc.inserted_count > 0),
            fetches |-> 1, tickets |-> tickets,
            counts |-> [updated |-> acc.updated_count,
                        inserted |-> acc.inserted_count,
                        errors |-> acc.error_count],
            docs |-> acc.docs]

ForceRefetchPruning(present, ds, outcome, bad) ==
    IF ~present
    THEN [path |-> "no collection", result |-> "False", fetches |-> 0,
          tickets |-> <<>>, counts |-> NoCounts, docs |-> ds]
    ELSE IF ~outcome.ok
    THEN [path |-> "fetch raised", result |-> RAISED, fetches |-> 1,
          tickets |-> <<>>, counts |-> NoCounts, docs |-> ds]
    ELSE
        LET tickets == JsonLoads(ToJson(OutcomeRows(outcome)))
            kept == {id \in DOMAIN ds : \E i \in DOMAIN tickets : tickets[i]._id = id}
            acc == ReconcileFrom([docs |-> [id \in kept |-> ds[id]],
                                  updated_count |-> 0,
                                  inserted_count |-> 0, error_count |-> 0],
                                 tickets, 1, bad)
        IN [path |-> "summary",
            result |-> PyBool(acc.updated_count + acc.inserted_count > 0),
            fetches |-> 1, tickets |-> tickets,
            counts |-> [updated |-> acc.updated_count,
                        inserted |-> acc.inserted_count,
                        errors |-> acc.error_count],
            docs |-> acc.docs]

\* what one call of force_refetch_and_update does and gives back
ForceRefetchAndUpdate(present, ds, outcome, bad) ==
    IF ~present
    THEN [path |-> "no collection", result |-> "False", fetches |-> 0,
          tickets |-> <<>>, counts |-> NoCounts, docs |-> ds]
    ELSE IF ~outcome.ok
    THEN [path |-> "fetch raised", result |-> RAISED, fetches |-> 1,
          tickets |-> <<>>, counts |-> NoCounts, docs |-> ds]
    ELSE IF NoData(ToJson(OutcomeRows(outcome)))
    THEN [path |-> "no data", result |-> "False", fetches |-> 1,
          tickets |-> <<>>, counts |-> NoCounts, docs |-> ds]
    ELSE
        LET tickets == JsonLoads(ToJson(OutcomeRows(outcome)))
            acc == ReconcileFrom([docs |-> ds, updated_count |-> 0,
                                  inserted_count |-> 0, error_count |-> 0],
                                 tickets, 1, bad)
        IN [path |-> "summary",
            result |-> PyBool(acc.updated_count + acc.inserted_count > 0),
            fetches |-> 1, tickets |-> tickets,
            counts |-> [updated |-> acc.updated_count,
                        inserted |-> acc.inserted_count,
                        errors |-> acc.error_count],
            docs |-> acc.docs]

\* the values an entry point hands back
DOCUMENTS == "documents"
FRESH_ROWS == "fresh rows"
EMPTY_FRAME == "empty DataFrame"

\* what a finished call leaves behind: the store before and after it, the
\* fetches it made and the first one's outcome, and what it gave back
Returned(op, outcome, fetches, path, refresh, result, rows, present, ds, bad) ==
    [op |-> op, pre_present |-> collection_present, pre_docs |-> docs,
     outcome |-> outcome, fetches |-> fetches, path |-> path, refresh |-> refresh,
     result |-> result, rows |-> rows, post_present |-> present, post_docs |-> ds,
     bad |-> bad]

\* what the force_refetch_and_update call inside a call gave back and counted
Refreshed(r) == [result |-> r.result, fetches |-> r.fetches, counts |-> r.counts]
NoRefresh == [result |-> "not called", fetches |-> 0, counts |-> NoCounts]

NoFetch == [ok |-> FALSE, tracker |-> "none"]

\* A mutant of balance that fetches whether or not the collection exists:
BalanceRefetch ==
    /\ Len(calls) < MaxCalls
    /\ \E outcome \in FetchOutcomes :
          calls' = Append(calls,
              Returned("balance", outcome, 1, "present", NoRefresh, DOCUMENTS,
                       FindAll(docs), collection_present, docs, {}))
    /\ UNCHANGED <<call, bulkVars, syncVars, collection_present, docs, run, history, edits, faults>>

\* balance: the documents of a collection that exists; else fetch, insert the
\* batch and read it back, False on any exception
Balance ==
    /\ Len(calls) < MaxCalls
    /\ IF collection_present
       THEN /\ calls' = Append(calls,
                  Returned("balance", NoFetch, 0, "present", NoRefresh, DOCUMENTS,
                           FindAll(docs), TRUE, docs, {}))
            /\ UNCHANGED <<collection_present, docs>>
       ELSE \E outcome \in FetchOutcomes :
            IF ~outcome.ok
            THEN /\ calls' = Append(calls,
                       Returned("balance", outcome, 1, "caught", NoRefresh, "False",
                                {}, FALSE, docs, {}))
                 /\ UNCHANGED <<collection_present, docs>>
            ELSE LET tickets == JsonLoads(ToJson(OutcomeRows(outcome)))
                     ins == DbInsertAll(docs, tickets)
                     present == ins.docs # <<>>
                 IN /\ docs' = ins.docs
                    /\ collection_present' = present
                    /\ calls' = Append(calls,
                          IF ins.raised
                          THEN Returned("balance", outcome, 1, "caught", NoRefresh,
                                        "False", {}, present, ins.docs, {})
                          ELSE Returned("balance", outcome, 1, "inserted", NoRefresh,
                                        DOCUMENTS, FindAll(ins.docs), present,
                                        ins.docs, {}))
    /\ UNCHANGED <<call, bulkVars, syncVars, run, history, edits, faults>>

\* load_data_no_cache: force_refetch_and_update, its return value dropped,
\* then a second fetch whose rows are handed back; an empty DataFrame on any
\* exception.  `outcome` is what the tracker answers during the call (the
\* second fetch is the only one when the collection is missing), `again`
\* whether it still answers at the second fetch.
LoadDataNoCache ==
    /\ Len(calls) < MaxCalls
    /\ \E outcome \in FetchOutcomes :
       \E bad \in BadSets(OutcomeRows(outcome)) :
       \E again \in BOOLEAN :
          LET r == ForceRefetchAndUpdate(collection_present, docs, outcome, bad)
              refetch == r.path # "fetch raised"
              \* pd.DataFrame(rows) of no rows is the empty DataFrame
              fresh == refetch /\ again /\ OutcomeRows(outcome) # <<>>
          IN
          /\ (r.path \in {"no collection", "fetch raised"} => bad = {})
          /\ (r.path = "fetch raised" => again = FALSE)
          /\ (r.path = "no collection" => again = outcome.ok)
          /\ docs' = r.docs
          /\ calls' = Append(calls,
                Returned("load_data_no_cache", outcome,
                         r.fetches + (IF refetch THEN 1 ELSE 0), r.path, Refreshed(r),
                         IF fresh THEN FRESH_ROWS ELSE EMPTY_FRAME,
                         IF fresh THEN Range(OutcomeRows(outcome)) ELSE {},
                         collection_present, r.docs, bad))
          /\ faults' = faults + Cardinality(bad)
    /\ UNCHANGED <<call, bulkVars, syncVars, collection_present, run, history, edits>>

-----------------------------------------------------------------------------
(* Specifications *)

BulkIdle ==
    /\ keys_arg = <<>>
    /\ max_workers_arg = 0
    /\ max_workers = MAX_WORKERS
    /\ backend = <<>>
    /\ chunks = <<>>
    /\ futures = <<>>
    /\ consumed = {}
    /\ key_to_issue = <<>>
    /\ lookups = <<>>
    /\ bulk_pc = "idle"

ReconIdle ==
    /\ collection_present = FALSE
    /\ docs = <<>>
    /\ run = RunIdle
    /\ history = <<>>
    /\ edits = 0
    /\ faults = 0
    /\ calls = <<>>

\* no fetch_tickets call and no classifier call under way
NoSync == [pc |-> "idle"]
NoProbe == [fn |-> "none"]

SyncIdle ==
    /\ sync = NoSync
    /\ probe = NoProbe

InitBackoff ==
    /\ call = BackoffIdle
    /\ BulkIdle
    /\ ReconIdle
    /\ SyncIdle

NextBackoff ==
    \/ \E site \in CallSites : SearchBegin(site)
    \/ \E outcome \in Outcomes : SearchAttempt(outcome)

SpecBackoff == InitBackoff /\ [][NextBackoff]_vars

\* the first n identifiers, in the order the caller collected them
KeyPrefix(n) == [i \in 1..n |-> KEY_NAMES[i]]

\* the requests: n identifiers, alone or with an empty and a repeated one added
Requests ==
    {KeyPrefix(n) : n \in 0..MaxKeys}
        \cup {KeyPrefix(n) \o <<"">> \o KeyPrefix(Min(n, 1)) : n \in 0..MaxKeys}

\* a record as the bulk fetch sees it: it reads the key alone
BareIssue(k) == [key |-> k]

\* the tracker resolves every identifier, or every one but the second
Backends ==
    {[k \in resolved |-> BareIssue(k)] : resolved \in {Keys, Keys \ {KEY_NAMES[2]}}}

InitBulk ==
    /\ call = BackoffIdle
    /\ keys_arg \in Requests
    /\ max_workers_arg \in 0..MaxWorkersArg
    /\ max_workers = MaxWorkersInit(max_workers_arg)
    /\ backend \in Backends
    /\ chunks = <<>>
    /\ futures = <<>>
    /\ consumed = {}
    /\ key_to_issue = <<>>
    /\ lookups = <<>>
    /\ bulk_pc = "start"
    /\ ReconIdle
    /\ SyncIdle

NextBulk ==
    \/ BulkStart
    \/ \E i \in 1..MaxKeys : WorkerStart(i)
    \/ \E i \in 1..MaxKeys : WorkerFinish(i)
    \/ \E i \in 1..MaxKeys : Consume(i)
    \/ DrainDone
    \/ SequentialStep

SpecBulk == InitBulk /\ [][NextBulk]_vars

\* the release's collection is missing, or exists and is empty
Init ==
    /\ call = BackoffIdle
    /\ BulkIdle
    /\ collection_present \in BOOLEAN
    /\ docs = <<>>
    /\ run = RunIdle
    /\ history = <<>>
    /\ edits = 0
    /\ faults = 0
    /\ calls = <<>>
    /\ SyncIdle

Next ==
    \/ RefreshBegin
    \/ RefreshFind
    \/ RefreshWrite
    \/ \E id \in EditTargets : CommentsAddition(id)
    \/ \E id \in EditTargets, effort \in Efforts : UpdateEffort(id, effort)

Spec == Init /\ [][Next]_vars

\* the entry points called one after another, with the user's edits between
NextEntry ==
    \/ Balance
    \/ LoadDataNoCache
    \/ \E id \in EntryEditTargets : CommentsAddition(id)
    \/ \E id \in EntryEditTargets, effort \in Efforts : UpdateEffort(id, effort)

SpecEntry == Init /\ [][NextEntry]_vars

-----------------------------------------------------------------------------
(* The features and children a sync of the whole pipeline reads *)

BUG_C == "SWDEV-13"
UNRESOLVED == "SWDEV-16"

Feature(key, summary, description, issuelinks) ==
    [key |-> key, status |-> <<"Open">>, summary |-> summary,
     description |-> description, issuelinks |-> issuelinks]

\* committed, with two QA tasks, a Task it blocks and a Bug
F_Two ==
    Feature("SWDEV-1", "fp8 gemm", <<DescCommitted>>,
            <<FeatureLink(COMPRISED_OF_TASK, "outwardIssue", QA_A),
              FeatureLink("is blocked by", "outwardIssue", "SWDEV-12"),
              FeatureLink(COMPRISED_OF_TASK, "inwardIssue", QA_B),
              FeatureLink(COMPRISED_OF_TASK, "outwardIssue", BUG_C)>>)

\* not committed, and without a description: each has a QA task of its own
F_Plain ==
    Feature("SWDEV-2", "paged attention", <<DescPlain>>,
            <<FeatureLink(COMPRISED_OF_TASK, "outwardIssue", "SWDEV-14")>>)

F_NoDescription ==
    Feature("SWDEV-3", "rccl tuning", <<>>,
            <<FeatureLink(COMPRISED_OF_TASK, "outwardIssue", "SWDEV-15")>>)

\* committed, with a Bug and a child the tracker does not resolve
F_NoQa ==
    Feature("SWDEV-4", "hipblaslt epilogue", <<DescCommitted>>,
            <<FeatureLink(COMPRISED_OF_TASK, "outwardIssue", UNRESOLVED),
              FeatureLink(COMPRISED_OF_TASK, "outwardIssue", BUG_C)>>)

\* committed, without links
F_NoLinks == Feature("SWDEV-5", "mi300 bringup", <<DescCommitted>>, <<>>)

PipelineIssues ==
    [k \in {QA_A, QA_B, "SWDEV-12", BUG_C, "SWDEV-14", "SWDEV-15"} |->
        IF k = BUG_C THEN [QaIssue(k, 1) EXCEPT !.issuetype = <<"Bug">>]
        ELSE QaIssue(k, 1)]

PipelineNames == {"mixed", "reversed", "uncommitted", "bare"}

\* what the feature query returns, in its order
PipelineTracker(name) ==
    [features |->
        IF name = "mixed" THEN <<F_Two, F_Plain, F_NoQa, F_NoLinks>>
        ELSE IF name = "reversed" THEN <<F_NoLinks, F_NoQa, F_NoDescription, F_Two>>
        ELSE IF name = "uncommitted" THEN <<F_Plain, F_NoDescription>>
        ELSE <<F_NoLinks>>,
     issues |-> PipelineIssues]

-----------------------------------------------------------------------------
(* The classifier's functions, each called once on an input of its domain *)

MaxDesc == 3
MaxLinks == 3

DescTokens == TagTokens \cup QaTokens \cup {NEWLINE, "later"}

RECURSIVE TokenSeqs(_)
TokenSeqs(n) ==
    IF n = 0 THEN {<<>>}
    ELSE LET shorter == TokenSeqs(n - 1) IN
         shorter \cup {Append(d, t) : d \in {x \in shorter : Len(x) = n - 1},
                                      t \in DescTokens}

\* a feature as the query returns it; its description may be missing
ProbeFeature(description) ==
    [key |-> "SWDEV-1", status |-> <<"Open">>, summary |-> "fp8 gemm",
     description |-> description, issuelinks |-> <<>>]

ProbeFeatures ==
    {ProbeFeature(<<d>>) : d \in TokenSeqs(MaxDesc)} \cup {ProbeFeature(<<>>)}

Triages ==
    {[kind |-> "list", items |-> its] :
        its \in {<<>>, <<TRIAGE_SENTINEL>>, <<TRIAGE_SENTINEL, "5">>,
                 <<"5", TRIAGE_SENTINEL>>}}
    \cup {[kind |-> "str", items |-> <<x>>] : x \in {TRIAGE_SENTINEL, "5"}}
    \cup {[kind |-> "none", items |-> <<>>]}

\* a linked child as the bulk fetch returns it
ProbeIssues ==
    {[key |-> QA_A, issuetype |-> t, customfield_14308 |-> tr, status |-> st,
      assignee |-> <<>>, labels |-> <<>>, issuelinks |-> <<>>] :
        t \in {<<"Task">>, <<"Bug">>, <<>>}, tr \in Triages,
        st \in {<<"Open">>, <<"Rejected">>, <<>>}}

\* the links of a QA task: the i-th link holds the i-th key on one side
LinkKeys == <<"SWDEV-20", "SWDEV-21", "SWDEV-22", "SWDEV-23">>
LinkStatuses == <<"Open", "Done", "In Progress", "Closed">>
LinkChoices ==
    [side : {"inwardIssue", "outwardIssue"}, type : {"Task", "Bug"},
     summary : {<<"Automation">>, <<"TMS", "cases">>, <<"auto", "tms">>, <<"docs">>}]

ProbeLink(i, c) ==
    LET linked == <<[key |-> <<LinkKeys[i]>>, issuetype |-> <<c.type>>,
                     summary |-> c.summary, status |-> <<LinkStatuses[i]>>]>>
    IN [inwardIssue |-> IF c.side = "inwardIssue" THEN linked ELSE <<>>,
        outwardIssue |-> IF c.side = "outwardIssue" THEN linked ELSE <<>>]

ProbeLinks(f) == [i \in DOMAIN f |-> ProbeLink(i, f[i])]

ProbeQa(links) == [QaIssue(QA_A, 1) EXCEPT !.issuelinks = links]

\* the trackers both fetchers are run on: the feature with its two QA tasks
\* before and after their fields moved on, a feature linked twice to one QA
\* task, an uncommitted feature, and a feature without description
ComparedTrackers ==
    {SyncTracker("two", 1), SyncTracker("two", 2), SyncTracker("twice", 2),
     SyncTracker("uncommitted", 1),
     [features |-> <<F_NoDescription, F_NoLinks>>, issues |-> PipelineIssues]}

\* one committed feature whose QA task, assigned and labelled, has the links
LinkedTracker(links) ==
    [features |-> <<Feature("SWDEV-1", "fp8 gemm", <<DescCommitted>>,
                            <<FeatureLink(COMPRISED_OF_TASK, "outwardIssue", QA_A)>>)>>,
     issues |-> [k \in {QA_A} |-> [QaIssue(QA_A, 2) EXCEPT !.issuelinks = links]]]

InitClassify ==
    /\ call = BackoffIdle
    /\ BulkIdle
    /\ ReconIdle
    /\ sync = NoSync
    /\ \/ \E f \in ProbeFeatures :
             probe = [fn |-> "get_qa_committed_tasks", pc |-> "called", feature |-> f]
       \/ \E issue \in ProbeIssues :
             probe = [fn |-> "_qa_filter", pc |-> "called", issue |-> issue]
       \/ probe = [fn |-> "_qa_filter", pc |-> "called", issue |-> BareIssue(QA_A)]
       \/ \E n \in 0..MaxLinks : \E f \in [1..n -> LinkChoices] :
             probe = [fn |-> "get_task_details", pc |-> "called",
                      links |-> ProbeLinks(f)]
       \/ \E tracker \in ComparedTrackers :
             probe = [fn |-> "original fetch_tickets", pc |-> "called",
                      tracker |-> tracker]
       \/ \E n \in 0..MaxLinks : \E f \in [1..n -> LinkChoices] :
             probe = [fn |-> "original fetch_tickets", pc |-> "called",
                      tracker |-> LinkedTracker(ProbeLinks(f))]

ApplyGetQaCommittedTasks ==
    /\ probe.fn = "get_qa_committed_tasks" /\ probe.pc = "called"
    /\ probe' = [fn |-> probe.fn, pc |-> "returned", feature |-> probe.feature,
                 selected |-> GetQaCommittedTasks(<<probe.feature>>)]
    /\ UNCHANGED <<call, bulkVars, reconVars, sync>>

ApplyQaFilter ==
    /\ probe.fn = "_qa_filter" /\ probe.pc = "called"
    /\ probe' = [fn |-> probe.fn, pc |-> "returned", issue |-> probe.issue,
                 kept |-> QaFilter(probe.issue)]
    /\ UNCHANGED <<call, bulkVars, reconVars, sync>>

ApplyGetTaskDetails ==
    /\ probe.fn = "get_task_details" /\ probe.pc = "called"
    /\ probe' = [fn |-> probe.fn, pc |-> "returned", links |-> probe.links,
                 row |-> GetTaskDetails(ProbeFeature(<<DescCommitted>>),
                                        <<ProbeQa(probe.links)>>)]
    /\ UNCHANGED <<call, bulkVars, reconVars, sync>>

ApplyOriginalFetchTickets ==
    /\ probe.fn = "original fetch_tickets" /\ probe.pc = "called"
    /\ LET r == OriginalFetchTickets(probe.tracker) IN
       probe' = [fn |-> probe.fn, pc |-> "returned", tracker |-> probe.tracker,
                 status |-> r.status, rows |-> r.rows]
    /\ UNCHANGED <<call, bulkVars, reconVars, sync>>

NextClassify ==
    \/ ApplyGetQaCommittedTasks
    \/ ApplyQaFilter
    \/ ApplyGetTaskDetails
    \/ ApplyOriginalFetchTickets

SpecClassify == InitClassify /\ [][NextClassify]_vars

-----------------------------------------------------------------------------
(* TicketFetch.fetch_tickets as it runs: the feature query, the filter and   *)
(* the link resolver, then the bulk fetch with its workers, then the rows    *)

\* feature_to_linked_keys: a later feature of the same key overwrites
FeatureToLinkedKeys(features) ==
    [k \in {features[i].key : i \in DOMAIN features} |->
        LET last == CHOOSE i \in DOMAIN features :
                        /\ features[i].key = k
                        /\ \A j \in DOMAIN features : features[j].key = k => j <= i
        IN CollectCandidateLinkedKeys(features[last])]

\* lines 292-303 for one feature; the mutant appends no row of the feature alone
SyncRowsForNoPlaceholder(feature_task, linked, map) ==
    LET keys == IF feature_task.key \in DOMAIN linked
                THEN linked[feature_task.key] ELSE <<>>
    IN RowsForKeys(feature_task, keys, map)

SyncRowsFor(feature_task, linked, map) ==
    LET keys == IF feature_task.key \in DOMAIN linked
                THEN linked[feature_task.key] ELSE <<>>
        with_qa == RowsForKeys(feature_task, keys, map)
    IN IF with_qa # <<>> THEN with_qa ELSE <<GetTaskDetails(feature_task, <<>>)>>

RECURSIVE SyncRows(_, _, _)
SyncRows(features, linked, map) ==
    IF features = <<>> THEN <<>>
    ELSE SyncRowsFor(Head(features), linked, map)
            \o SyncRows(Tail(features), linked, map)

\* lines 264-287: the feature query returns or raises; the committed features
\* and their linked keys are collected and the bulk fetch is called
SyncBegin ==
    /\ sync.pc = "called"
    /\ bulk_pc = "idle"
    /\ \/ /\ sync' = [pc |-> "raised", tracker |-> sync.tracker, at |-> "features"]
          /\ UNCHANGED <<keys_arg, backend, bulk_pc>>
       \/ LET tracker == PipelineTracker(sync.tracker)
              qa_committed_features == GetQaCommittedTasks(tracker.features)
              feature_to_linked_keys == FeatureToLinkedKeys(qa_committed_features)
              all_linked_keys ==
                  UNION {Range(feature_to_linked_keys[k]) :
                            k \in DOMAIN feature_to_linked_keys}
          IN /\ sync' = [pc |-> "fetching", tracker |-> sync.tracker, queries |-> 1,
                         features |-> qa_committed_features,
                         linked |-> feature_to_linked_keys]
             /\ keys_arg' = CHOOSE order \in Orderings(all_linked_keys) : TRUE
             /\ backend' = tracker.issues
             /\ bulk_pc' = "start"
    /\ UNCHANGED <<call, reconVars, probe, max_workers_arg, max_workers, chunks,
                   futures, consumed, key_to_issue, lookups>>

\* the mutant builds the rows in the order the children were looked up in
RECURSIVE Flatten(_)
Flatten(cs) == IF cs = <<>> THEN <<>> ELSE Head(cs) \o Flatten(Tail(cs))

RECURSIVE RowsByKey(_, _, _, _)
RowsByKey(features, linked, keys, map) ==
    IF keys = <<>> THEN <<>>
    ELSE LET k == Head(keys)
             owners == SelectSeq(features, LAMBDA f : k \in Range(linked[f.key]))
         IN (IF k \in DOMAIN map /\ QaFilter(map[k])
             THEN [i \in DOMAIN owners |-> GetTaskDetails(owners[i], <<map[k]>>)]
             ELSE <<>>)
            \o RowsByKey(features, linked, Tail(keys), map)

SyncBuildLookupOrder ==
    /\ sync.pc = "fetching"
    /\ bulk_pc = "returned"
    /\ sync' = [pc |-> "done", tracker |-> sync.tracker, queries |-> sync.queries,
                features |-> sync.features, linked |-> sync.linked,
                rows |-> RowsByKey(sync.features, sync.linked, Flatten(chunks),
                                   key_to_issue)]
    /\ UNCHANGED <<call, bulkVars, reconVars, probe>>

\* lines 289-311: the bulk fetch has returned its mapping; the rows are built
SyncBuild ==
    /\ sync.pc = "fetching"
    /\ bulk_pc = "returned"
    /\ sync' = [pc |-> "done", tracker |-> sync.tracker, queries |-> sync.queries,
                features |-> sync.features, linked |-> sync.linked,
                rows |-> SyncRows(sync.features, sync.linked, key_to_issue)]
    /\ UNCHANGED <<call, bulkVars, reconVars, probe>>

\* line 287: the bulk fetch raised, and so does fetch_tickets
SyncAbort ==
    /\ sync.pc = "fetching"
    /\ bulk_pc = "raised"
    /\ sync' = [pc |-> "raised", tracker |-> sync.tracker, at |-> "bulk"]
    /\ UNCHANGED <<call, bulkVars, reconVars, probe>>

InitSync ==
    /\ call = BackoffIdle
    /\ keys_arg = <<>>
    /\ max_workers_arg \in 0..MaxWorkersArg
    /\ max_workers = MaxWorkersInit(max_workers_arg)
    /\ backend = <<>>
    /\ chunks = <<>>
    /\ futures = <<>>
    /\ consumed = {}
    /\ key_to_issue = <<>>
    /\ lookups = <<>>
    /\ bulk_pc = "idle"
    /\ ReconIdle
    /\ \E name \in PipelineNames : sync = [pc |-> "called", tracker |-> name]
    /\ probe = NoProbe

NextSync ==
    \/ SyncBegin
    \/ BulkStart
    \/ \E i \in 1..MaxKeys : WorkerStart(i)
    \/ \E i \in 1..MaxKeys : WorkerFinish(i)
    \/ \E i \in 1..MaxKeys : Consume(i)
    \/ DrainDone
    \/ SequentialStep
    \/ SyncBuild
    \/ SyncAbort

SpecSync == InitSync /\ [][NextSync]_vars

-----------------------------------------------------------------------------
(* The dashboard's edits (app.py): a row of the grid is selected and a       *)
(* comment submitted, or the helpers are called with a ticket id             *)

\* the keys identities are made of: features, and children of the SWDEV
\* project and of another one
FeatureKeys == {"", "SWDEV-1", "SWDEV-2", "SWDEV-3", "SWDEV-4", "SWDEV-5"}
SwdevChildKeys == {QA_A, QA_B, "SWDEV-12", BUG_C, "SWDEV-14", "SWDEV-15", UNRESOLVED}
ForeignChildKeys == {"ROCMQA-7"}
ChildKeys == SwdevChildKeys \cup ForeignChildKeys

\* "|".join(parts)
JoinBar(parts) ==
    IF Len(parts) = 1 THEN parts[1] ELSE parts[1] \o "|" \o parts[2]

\* id.split("|") of an identity made of these keys, none of which has a "|"
IdParts ==
    [id \in {f : f \in FeatureKeys} \cup
            {f \o "|" \o q : f \in FeatureKeys, q \in ChildKeys} |->
        CHOOSE parts \in {<<f>> : f \in FeatureKeys}
                            \cup {<<f, q>> : f \in FeatureKeys, q \in ChildKeys} :
            JoinBar(parts) = id]

\* `"SWDEV" in qa_task`, on the keys above and "NA"
ContainsSwdev(qa_task) == qa_task \in SwdevChildKeys \cup (FeatureKeys \ {""})

FormatQaTaskKey(qa_task) == IF ContainsSwdev(qa_task) THEN "|" \o qa_task ELSE ""

GetTicketId(feature_id, qa_task) == feature_id \o FormatQaTaskKey(qa_task)

\* the row of the grid for a stored document: _id is cut at the first "|" and
\* shown as the Feature ID
DisplayedRow(doc) == [Feature_ID |-> IdParts[doc._id][1], QA_task |-> doc.QA_task]

\* a committed feature with a QA task of another project and one of SWDEV
ForeignTracker ==
    [features |->
        <<Feature("SWDEV-1", "fp8 gemm", <<DescCommitted>>,
                  <<FeatureLink(COMPRISED_OF_TASK, "outwardIssue", "ROCMQA-7"),
                    FeatureLink(COMPRISED_OF_TASK, "outwardIssue", QA_A)>>)>>,
     issues |-> [k \in {"ROCMQA-7", QA_A} |-> QaIssue(k, 1)]]

\* the inserts of a reconciliation whose rows are all new
RECURSIVE InsertRows(_, _)
InsertRows(ds, rows) ==
    IF rows = <<>> THEN ds
    ELSE InsertRows(IF DbFound(ds, Head(rows)._id) THEN ds ELSE DbInsert(ds, Head(rows)),
                    Tail(rows))

\* the collections the dashboard shows: none yet, and those left by syncs of
\* a feature without links, with two QA tasks, with the foreign QA task, and
\* by a sync without links followed by one with the foreign QA task
EditPartitions ==
    LET bare == FetchRows(SyncTracker("bare", 1))
        two == FetchRows(SyncTracker("two", 1))
        foreign == FetchRows(ForeignTracker)
    IN {<<>>, InsertRows(<<>>, bare), InsertRows(<<>>, two), InsertRows(<<>>, foreign),
        InsertRows(InsertRows(<<>>, bare), foreign)}

EditIds == TicketIds \cup {"SWDEV-1|ROCMQA-7"}
EffortChoices == {"S", "M"}
BLANK == " "

InitEdit ==
    /\ call = BackoffIdle
    /\ BulkIdle
    /\ docs \in EditPartitions
    /\ collection_present = (docs # <<>>)
    /\ run = RunIdle
    /\ history = <<>>
    /\ edits = 0
    /\ faults = 0
    /\ calls = <<>>
    /\ sync = NoSync
    /\ \/ \E id \in EditIds, comment \in Range(CommentTexts) :
             probe = [fn |-> "comments_addition", pc |-> "called",
                      ticket_id |-> id, comment |-> comment]
       \/ \E id \in EditIds, effort \in EffortChoices :
             probe = [fn |-> "update_effort", pc |-> "called",
                      ticket_id |-> id, effort |-> effort]
       \/ \E id \in DOMAIN docs, comment \in Range(CommentTexts) \cup {BLANK} :
             probe = [fn |-> "handle_comment_submission", pc |-> "called",
                      selected |-> id, selected_row |-> DisplayedRow(docs[id]),
                      new_comment |-> comment]

\* help.py:6-8 and Database.update_comments: update_one's result is
\* acknowledged whether or not a document matched
CommentsAdditionCall ==
    /\ probe.fn = "comments_addition" /\ probe.pc = "called"
    /\ docs' = DbUpdateComments(docs, probe.ticket_id, probe.comment)
    /\ probe' = [fn |-> probe.fn, pc |-> "returned", ticket_id |-> probe.ticket_id,
                 comment |-> probe.comment, ack |-> TRUE]
    /\ UNCHANGED <<call, bulkVars, sync, collection_present, run, history, edits,
                   faults, calls>>

\* Database.update_effort
UpdateEffortCall ==
    /\ probe.fn = "update_effort" /\ probe.pc = "called"
    /\ docs' = DbUpdateEffort(docs, probe.ticket_id, probe.effort)
    /\ probe' = [fn |-> probe.fn, pc |-> "returned", ticket_id |-> probe.ticket_id,
                 effort |-> probe.effort, ack |-> TRUE]
    /\ UNCHANGED <<call, bulkVars, sync, collection_present, run, history, edits,
                   faults, calls>>

\* app.py:570-592
HandleCommentSubmission ==
    /\ probe.fn = "handle_comment_submission" /\ probe.pc = "called"
    /\ IF probe.new_comment = BLANK
       THEN /\ probe' = [fn |-> probe.fn, pc |-> "returned", selected |-> probe.selected,
                         selected_row |-> probe.selected_row,
                         new_comment |-> probe.new_comment,
                         ticket_id |-> "", result |-> FALSE]
            /\ UNCHANGED docs
       ELSE LET ticket_id == GetTicketId(probe.selected_row.Feature_ID,
                                        probe.selected_row.QA_task)
            IN /\ docs' = DbUpdateComments(docs, ticket_id, probe.new_comment)
               /\ probe' = [fn |-> probe.fn, pc |-> "returned",
                            selected |-> probe.selected,
                            selected_row |-> probe.selected_row,
                            new_comment |-> probe.new_comment,
                            ticket_id |-> ticket_id, result |-> TRUE]
    /\ UNCHANGED <<call, bulkVars, sync, collection_present, run, history, edits,
                   faults, calls>>

NextEdit ==
    \/ CommentsAdditionCall
    \/ UpdateEffortCall
    \/ HandleCommentSubmission

SpecEdit == InitEdit /\ [][NextEdit]_vars

-----------------------------------------------------------------------------
(* Claims about the bulk fetch (SpecBulk) *)

ParallelRun == RunsParallel(max_workers, chunks)

TotalLookups == SumOver(lookups, DOMAIN lookups)

\* C4: a bulk fetch dispatched to more than one worker returns, for every order
\* in which the chunk lookups complete, the mapping the sequential dispatch
\* builds from the same chunks and the same backend.
C4_ParallelEqualsSequential ==
    (bulk_pc = "returned" /\ ParallelRun)
        => key_to_issue = SequentialMapping(backend, chunks, <<>>)

C4_Witness ==
    /\ bulk_pc = "returned"
    /\ ParallelRun
    /\ Len(chunks) = 3
    /\ Cardinality(DOMAIN key_to_issue) >= 4

\* C5: when the chunk lookups run concurrently and all succeed, every record a
\* chunk lookup returned is in the final mapping under its identifier.
C5_NoResultLost ==
    (bulk_pc = "returned" /\ ParallelRun)
        => \A i \in DOMAIN futures : \A r \in futures[i].issues :
              r.key \in DOMAIN key_to_issue /\ key_to_issue[r.key] = r

\* two lookups are complete and not taken yet, a third has been merged
C5_WitnessSimultaneous ==
    /\ bulk_pc = "parallel"
    /\ Cardinality({i \in DOMAIN futures \ consumed : futures[i].state = "done"}) >= 2
    /\ consumed # {}

C5_Witness ==
    /\ bulk_pc = "returned"
    /\ ParallelRun
    /\ \A i \in DOMAIN futures : futures[i].issues # {}
    /\ Cardinality(DOMAIN futures) >= 2

\* C8: once a chunk lookup has exhausted its retries the bulk fetch never
\* returns a mapping, on either dispatch path: it ends raising.
C8_NoPartialResult ==
    (\E i \in DOMAIN futures : futures[i].state = "failed") => bulk_pc # "returned"

\* a concurrent fetch that raised after merging the records of another chunk
C8_Witness ==
    /\ bulk_pc = "raised"
    /\ ParallelRun
    /\ DOMAIN key_to_issue # {}
    /\ \E i \in DOMAIN futures : futures[i].state = "failed"

C8_WitnessSequential ==
    /\ bulk_pc = "raised"
    /\ ~ParallelRun
    /\ DOMAIN key_to_issue # {}

\* C9: the chunks partition the de-duplicated non-empty identifiers, none holds
\* more than CHUNK_SIZE of them, there are ceil(n / CHUNK_SIZE) chunks, and a
\* fetch in which no lookup fails issues exactly one lookup per chunk.
C9_OneLookupPerChunk ==
    LET ids == DedupKeys(Range(keys_arg))
        n == Cardinality(ids) IN
    bulk_pc \notin {"idle", "start"} =>
        /\ Len(chunks) = CeilDiv(n, CHUNK_SIZE)
        /\ \A i \in DOMAIN chunks : Len(chunks[i]) \in 1..CHUNK_SIZE
        /\ \A k \in ids :
              Cardinality({<<i, j>> \in (DOMAIN chunks) \X (1..CHUNK_SIZE) :
                              j <= Len(chunks[i]) /\ chunks[i][j] = k}) = 1
        /\ \A i \in DOMAIN chunks : Range(chunks[i]) \subseteq ids
        /\ (bulk_pc = "returned" /\ \A i \in DOMAIN lookups : lookups[i] <= 1)
              => /\ TotalLookups = CeilDiv(n, CHUNK_SIZE)
                 /\ \A i \in DOMAIN lookups : lookups[i] = 1

\* chunk size 2, identifiers A..E, worker cap 2: three lookups
C9_Witness ==
    /\ bulk_pc = "returned"
    /\ CHUNK_SIZE = 2
    /\ max_workers = 2
    /\ DedupKeys(Range(keys_arg)) = {"A", "B", "C", "D", "E"}
    /\ TotalLookups = 3

\* C27: with a worker cap argument of at most 1 (0 included), or with at most
\* one chunk, the lookups are dispatched sequentially and no two are in
\* flight together; with a cap above 1 no more lookups than the cap are in
\* flight.
C27_SequentialUnderCap ==
    bulk_pc \notin {"idle", "start"} =>
        /\ (max_workers_arg <= 1 \/ Len(chunks) <= 1) =>
              /\ bulk_pc \notin {"parallel", "draining"}
              /\ Cardinality(InFlight) <= 1
        /\ max_workers_arg > 1 => Cardinality(InFlight) <= max_workers_arg

\* C29: a bulk fetch that returns maps exactly the requested non-empty
\* identifiers the tracker resolves, each to its record; it issues no lookup
\* when no non-empty identifier is requested, never looks up the empty
\* identifier, and raises only when a lookup has failed.
C29_MappingOfResolved ==
    LET requested == Range(keys_arg) \ {""} IN
    /\ bulk_pc = "returned" =>
          /\ DOMAIN key_to_issue = requested \cap DOMAIN backend
          /\ \A k \in DOMAIN key_to_issue : key_to_issue[k] = backend[k]
    /\ requested = {} => (lookups = <<>> /\ chunks = <<>>)
    /\ \A i \in DOMAIN chunks : "" \notin Range(chunks[i])
    /\ bulk_pc = "raised" => \E i \in DOMAIN futures : futures[i].state = "failed"

\* a fetch asked for an empty, a repeated and an unresolved identifier has
\* returned the records of the others
C29_Witness ==
    /\ bulk_pc = "returned"
    /\ "" \in Range(keys_arg)
    /\ Len(keys_arg) > Cardinality(Range(keys_arg))
    /\ Range(keys_arg) \ (DOMAIN backend \cup {""}) # {}
    /\ Cardinality(DOMAIN key_to_issue) >= 2

-----------------------------------------------------------------------------
(* Claims about the retry wrapper (SpecBackoff) *)

AllFailed(c) == \A i \in DOMAIN c.calls : c.calls[i] # "ok"

\* C6: the delay before retry k is base * 2^(k-1); a lookup whose every attempt
\* fails raises at attempt BACKOFF_MAX_RETRIES + 1 and not before, and sleeps
\* once per retry and not after the last attempt: 5 attempts, delays
\* 1.5 s, 3 s, 6 s, 12 s.
C6_BackoffSchedule ==
    /\ \A k \in DOMAIN call.sleeps : call.sleeps[k] = BACKOFF_BASE_MS * Pow2(k - 1)
    /\ AllFailed(call) =>
          /\ Len(call.calls) <= BACKOFF_MAX_RETRIES + 1
          /\ (call.status = "raised") <=> (Len(call.calls) = BACKOFF_MAX_RETRIES + 1)
          /\ Len(call.sleeps) = Min(Len(call.calls), BACKOFF_MAX_RETRIES)
    /\ call.status = "raised" =>
          /\ AllFailed(call)
          /\ Len(call.calls) = 5
          /\ call.sleeps = <<1500, 3000, 6000, 12000>>

C6_Witness ==
    /\ call.status = "raised"
    /\ Len(call.calls) = BACKOFF_MAX_RETRIES + 1

\* C7: an attempt that fails with a permanent error is the last attempt of the
\* lookup: the lookup raises at once and sleeps no more.
C7_PermanentNotRetried ==
    \A i \in DOMAIN call.calls :
        call.calls[i] = "permanent" =>
            /\ call.status = "raised"
            /\ Len(call.calls) = i
            /\ Len(call.sleeps) = i - 1

-----------------------------------------------------------------------------
(* Claims about reconciliation (Spec) *)

RefreshStep == RefreshBegin \/ RefreshFind \/ RefreshWrite

\* a finished call that got past the collection check and the fetch
Ran(h) == h.path = "summary"

IdsOf(tickets) == {tickets[i]._id : i \in DOMAIN tickets}

\* C1: no step of a force refresh changes the comments or the Effort of a
\* document the collection already holds, and none removes such a document.
C1_RefreshKeepsCommentsAndEffort ==
    [][RefreshStep =>
        \A id \in DOMAIN docs :
            /\ id \in DOMAIN docs'
            /\ docs'[id].comments = docs[id].comments
            /\ docs'[id].Effort = docs[id].Effort]_vars

\* a force refresh has updated a document that carries a comment and an Effort
C1_Witness ==
    /\ Len(history) = 2
    /\ history[2].updated >= 1
    /\ \E id \in history[2].start_ids \cap IdsOf(history[2].tickets) :
          /\ history[2].end_docs[id].comments # <<>>
          /\ history[2].end_docs[id].Effort # UNSET
          /\ history[2].end_docs[id].Feature_status # history[1].end_docs[id].Feature_status

\* C2: of two successive force refreshes of the same batch of N rows, the first
\* on an empty collection and neither meeting a store failure, the first
\* inserts N and updates 0, the second inserts 0 and updates N, and the
\* collection then holds N documents.
C2_TwiceSameBatch ==
    \A k \in 1..(Len(history) - 1) :
        LET first == history[k]
            second == history[k + 1]
            N == Len(first.tickets)
        IN (/\ Ran(first) /\ Ran(second)
            /\ first.tickets = second.tickets
            /\ first.start_ids = {}
            /\ first.failed = {} /\ second.failed = {})
           => /\ first.inserted = N /\ first.updated = 0
              /\ second.inserted = 0 /\ second.updated = N
              /\ Cardinality(DOMAIN second.end_docs) = N

\* C3: a force refresh that met no store failure inserts the tickets whose _id
\* the collection did not hold and updates the others, and leaves every
\* fetched _id in the collection with each sync field equal to the fetched row.
C3_InsertOrUpdate ==
    \A k \in DOMAIN history :
        LET h == history[k] IN
        (Ran(h) /\ h.failed = {}) =>
            /\ h.inserted = Cardinality(IdsOf(h.tickets) \ h.start_ids)
            /\ h.updated = Len(h.tickets) - h.inserted
            /\ \A i \in DOMAIN h.tickets :
                  LET ticket == h.tickets[i] IN
                  /\ ticket._id \in DOMAIN h.end_docs
                  /\ \A f \in SyncFields : h.end_docs[ticket._id][f] = ticket[f]

\* one call has inserted a row and updated another, whose fields had moved on
C3_Witness ==
    \E k \in DOMAIN history :
        /\ history[k].inserted >= 1
        /\ history[k].updated >= 1
        /\ history[k].failed = {}
        /\ \E id \in history[k].start_ids \cap IdsOf(history[k].tickets) :
              history[k].end_docs[id].QA_status = "In Progress"

\* C10: a ticket whose store call raises does not end the call: the call goes
\* through every ticket of the batch, returns its boolean summary, and leaves
\* every other ticket's _id in the collection.
C10_BadRecordDoesNotAbort ==
    \A k \in DOMAIN history :
        LET h == history[k] IN
        h.path \notin {"no collection", "fetch raised", "no data"} =>
            /\ h.path = "summary"
            /\ h.result \in {"True", "False"}
            /\ h.processed = Len(h.tickets)
            /\ \A i \in DOMAIN h.tickets \ h.failed :
                  h.tickets[i]._id \in DOMAIN h.end_docs

\* the first of two tickets failed and the second was still inserted
C10_Witness ==
    \E k \in DOMAIN history :
        /\ history[k].failed = {1}
        /\ Len(history[k].tickets) = 2
        /\ history[k].inserted = 1
        /\ history[k].result = "True"

-----------------------------------------------------------------------------
(* Claims about the entry points (SpecEntry) *)

\* the calls that run force_refetch_and_update
Reconciling == {"load_data_no_cache"}

\* the fetched batch of a call that fetched
BatchOf(c) == OutcomeRows(c.outcome)

\* C11: at the end of a reconciliation that reached its summary, updated +
\* inserted + errors equals the number of records of the batch.
C11_EveryRecordCounted ==
    \A k \in DOMAIN calls :
        LET c == calls[k] IN
        (c.op \in Reconciling /\ c.path = "summary") =>
            c.refresh.counts.updated + c.refresh.counts.inserted
                + c.refresh.counts.errors = Len(BatchOf(c))

\* C12: force_refetch_and_update on a release whose collection does not exist
\* makes no fetch, leaves the store as it was, creates no collection, and
\* returns False, not True.
C12_NoCollectionNoRun ==
    \A k \in DOMAIN calls :
        LET c == calls[k] IN
        (c.op \in Reconciling /\ ~c.pre_present) =>
            /\ c.refresh.fetches = 0
            /\ c.post_docs = c.pre_docs
            /\ ~c.post_present
            /\ c.path = "no collection"
            /\ c.refresh.result = "False"

\* force_refetch_and_update was called on a missing collection, and the
\* collection is still missing
C12_Witness ==
    \E k \in DOMAIN calls :
        /\ calls[k].op \in Reconciling
        /\ ~calls[k].pre_present
        /\ calls[k].path = "no collection"
        /\ calls[k].outcome.ok
        /\ ~collection_present

\* C13: a force refresh from the application that met no store failure and
\* handed back fetched rows leaves a collection that exists and holds every
\* fetched identity, also when the collection did not exist before.
C13_ForceRefreshInitializes ==
    \A k \in DOMAIN calls :
        LET c == calls[k] IN
        (c.op = "load_data_no_cache" /\ c.result = FRESH_ROWS /\ c.bad = {}) =>
            /\ c.post_present
            /\ \A i \in StoreCalls(BatchOf(c)) :
                  BatchOf(c)[i]._id \in DOMAIN c.post_docs

\* C14: balance on a collection that exists makes no fetch and no store write
\* and returns the collection's documents; and after a balance that has
\* inserted a batch, no later balance fetches.
C14_ReadThroughHit ==
    /\ \A k \in DOMAIN calls :
          LET c == calls[k] IN
          (c.op = "balance" /\ c.pre_present) =>
              /\ c.fetches = 0
              /\ c.post_docs = c.pre_docs
              /\ c.post_present
              /\ c.result = DOCUMENTS
              /\ c.rows = FindAll(c.pre_docs)
    /\ \A j, k \in DOMAIN calls :
          (/\ j < k
           /\ calls[j].op = "balance" /\ calls[j].path = "inserted"
           /\ calls[k].op = "balance")
          => calls[k].fetches = 0

\* a balance that initialized the collection, the user's comment, and a second
\* balance that returned the commented document without fetching
C14_Witness ==
    /\ Len(calls) = 2
    /\ calls[1].op = "balance" /\ calls[1].path = "inserted"
    /\ calls[2].op = "balance" /\ calls[2].fetches = 0
    /\ \E d \in calls[2].rows : d.comments # <<>>

\* C15: a balance on a missing collection that succeeds has fetched once,
\* inserted every built row, and returns the inserted documents: the
\* collection exists and holds exactly the built rows.
C15_ReadThroughMiss ==
    \A k \in DOMAIN calls :
        LET c == calls[k] IN
        (c.op = "balance" /\ ~c.pre_present /\ c.result = DOCUMENTS) =>
            /\ c.fetches = 1
            /\ c.outcome.ok
            /\ c.post_present
            /\ FindAll(c.post_docs) = {DocOf(BatchOf(c)[i]) : i \in DOMAIN BatchOf(c)}
            /\ Cardinality(DOMAIN c.post_docs) = Len(BatchOf(c))
            /\ c.rows = FindAll(c.post_docs)

\* a balance on a missing collection has inserted a batch of two rows
C15_Witness ==
    \E k \in DOMAIN calls :
        /\ calls[k].op = "balance"
        /\ ~calls[k].pre_present
        /\ calls[k].path = "inserted"
        /\ Len(BatchOf(calls[k])) = 2
        /\ Cardinality(calls[k].rows) = 2

\* balance or force_refetch_and_update fetched and the fetch raised
FetchFailed(c) ==
    IF c.op = "balance" THEN c.fetches = 1 /\ ~c.outcome.ok
    ELSE c.path = "fetch raised"

\* balance or force_refetch_and_update fetched and the fetch built no row
FetchedNothing(c) ==
    /\ c.outcome.ok /\ BatchOf(c) = <<>>
    /\ IF c.op = "balance" THEN c.fetches = 1 ELSE c.path = "summary"

\* what balance, or the force_refetch_and_update of the call, gave back
Outcome(c) ==
    IF c.op = "balance" THEN <<c.result, c.rows>> ELSE <<c.refresh.result, {}>>

\* C16: when the fetch fails, neither balance nor force_refetch_and_update
\* lets an exception out to its caller.
C16_FailClosed ==
    \A k \in DOMAIN calls :
        LET c == calls[k] IN
        FetchFailed(c) => Outcome(c)[1] # RAISED

\* C17: what an entry point gives back when the fetch succeeded with no rows
\* differs from what the same entry point gives back when the fetch failed.
C17_EmptyIsNotFailure ==
    \A j, k \in DOMAIN calls :
        (/\ calls[j].op = calls[k].op
         /\ FetchedNothing(calls[j])
         /\ FetchFailed(calls[k]))
        => Outcome(calls[j]) # Outcome(calls[k])

\* C18: the rows a force refresh from the application hands back are the
\* persisted rows: each carries the comments and the Effort stored for it.
C18_ForceRefreshReturnsStored ==
    \A k \in DOMAIN calls :
        LET c == calls[k] IN
        (c.op = "load_data_no_cache" /\ c.result = FRESH_ROWS) =>
            \A r \in c.rows :
                r._id \in DOMAIN c.post_docs =>
                    /\ r.comments = c.post_docs[r._id].comments
                    /\ c.post_docs[r._id].Effort # UNSET =>
                          /\ "Effort" \in DOMAIN r
                          /\ r.Effort = c.post_docs[r._id].Effort

\* C19: no call of an entry point removes a document or the collection: every
\* _id the collection held before the call is still in it after the call.
C19_NeverDeletes ==
    \A k \in DOMAIN calls :
        LET c == calls[k] IN
        /\ DOMAIN c.pre_docs \subseteq DOMAIN c.post_docs
        /\ c.pre_present => c.post_present

\* a reconciliation reached its summary on a batch that no longer holds an
\* _id of the collection, and the document is still there
C19_Witness ==
    \E k \in DOMAIN calls :
        /\ calls[k].op \in Reconciling
        /\ calls[k].path = "summary"
        /\ \E id \in DOMAIN calls[k].pre_docs :
              /\ id \notin IdsOf(BatchOf(calls[k]))
              /\ id \in DOMAIN calls[k].post_docs
              /\ id \in DOMAIN docs

\* the qualifying children of a feature: the issues that a 'Comprised of Task'
\* link of the feature names and that pass the QA filter
QualifyingChildren(feature, issues) ==
    {key \in DOMAIN issues :
        /\ QaFilter(issues[key])
        /\ \E i \in DOMAIN feature.issuelinks :
              LET link == feature.issuelinks[i] IN
              /\ link.inward = COMPRISED_OF_TASK
              /\ <<[key |-> key]>> \in {link.inwardIssue, link.outwardIssue}}

\* the rows built for a feature
RowsOf(feature, rows) ==
    SelectSeq(rows, LAMBDA r : r.Feature_summary = feature.summary)

\* C20: for a committed feature with N >= 1 qualifying children a fetch builds
\* N rows, with pairwise distinct identities feature|child, one per child.
C20_OneRowPerChild ==
    \A k \in DOMAIN calls :
        LET c == calls[k] IN
        (c.fetches >= 1 /\ c.outcome.ok) =>
            \A i \in DOMAIN EntryTracker(c.outcome.tracker).features :
                LET tracker == EntryTracker(c.outcome.tracker)
                    feature == tracker.features[i]
                    children == QualifyingChildren(feature, tracker.issues)
                    built == RowsOf(feature, BatchOf(c))
                IN (IsQaCommitted(feature) /\ children # {}) =>
                    /\ Len(built) = Cardinality(children)
                    /\ IdsOf(built) = {feature.key \o "|" \o child : child \in children}
                    /\ \A a, b \in DOMAIN built : a # b => built[a]._id # built[b]._id

\* C25: every step leaves the comments of every stored row as they were, or
\* is the user's append and adds the new text as the last element; a row
\* enters the collection with no comments and never leaves it.  So a row's
\* comments are the texts appended to it, in append order.
C25_CommentsAppendOnly ==
    [][/\ DOMAIN docs \subseteq DOMAIN docs'
       /\ \A id \in DOMAIN docs' :
            IF id \in DOMAIN docs
            THEN \/ docs'[id].comments = docs[id].comments
                 \/ /\ edits' = edits + 1
                    /\ docs'[id].comments =
                          Append(docs[id].comments, CommentTexts[edits + 1])
            ELSE docs'[id].comments = <<>>]_vars

\* a row inserted by balance got a comment, went through a force refresh, and
\* got a second comment after the first
C25_Witness ==
    /\ Len(calls) = 2
    /\ calls[1].op = "balance" /\ calls[1].path = "inserted"
    /\ calls[2].op = "load_data_no_cache" /\ calls[2].path = "summary"
    /\ calls[2].refresh.counts.updated >= 1
    /\ \E id \in DOMAIN docs :
          /\ id \in DOMAIN calls[2].pre_docs
          /\ calls[2].pre_docs[id].comments = <<"c1">>
          /\ docs[id].comments = <<"c1", "c2">>

-----------------------------------------------------------------------------
(* Claims about the classifier (SpecClassify) *)

ProbeReturned(fn) == probe.fn = fn /\ probe.pc = "returned"

\* the tag, in either case, with "QA", in either case, somewhere after it
TagThenQa(desc) ==
    \E i, j \in DOMAIN desc : i < j /\ desc[i] \in TagTokens /\ desc[j] \in QaTokens

\* C23: the commitment filter accepts every description in which the tag is
\* followed, anywhere later, by "QA", whatever lies between the two
C23_AcceptsAnySpan ==
    (ProbeReturned("get_qa_committed_tasks") /\ probe.feature.description # <<>>
        /\ TagThenQa(probe.feature.description[1]))
    => probe.selected = <<probe.feature>>

\* the first element of the triage list, or the bare string
TriageValue(issue) ==
    LET triage == issue.customfield_14308 IN
    IF triage.kind \in {"list", "str"} /\ triage.items # <<>>
    THEN <<triage.items[1]>> ELSE <<>>

\* C24: the QA filter returns true exactly for a Task whose triage value is
\* the sentinel and whose status is not "Rejected"; it returns false for every
\* other issue type, and for a record it cannot evaluate
C24_QaFilterExact ==
    ProbeReturned("_qa_filter") =>
        /\ probe.kept = (/\ HasFields(probe.issue)
                         /\ probe.issue.issuetype = <<"Task">>
                         /\ TriageValue(probe.issue) = <<TRIAGE_SENTINEL>>
                         /\ probe.issue.status # <<"Rejected">>)
        /\ (HasFields(probe.issue) /\ probe.issue.issuetype # <<"Task">>)
              => probe.kept = FALSE
        /\ ~HasFields(probe.issue) => probe.kept = FALSE

\* a Bug that passes the triage and status tests is turned down
C24_Witness ==
    /\ ProbeReturned("_qa_filter")
    /\ HasFields(probe.issue)
    /\ probe.issue.issuetype = <<"Bug">>
    /\ probe.issue.customfield_14308 = [kind |-> "str", items |-> <<TRIAGE_SENTINEL>>]
    /\ probe.issue.status = <<"Open">>
    /\ probe.kept = FALSE

\* the record a link of the QA task holds, and whether it is a Task whose
\* summary has one of the tokens
LinkedOf(link) == OrElse(link.inwardIssue, link.outwardIssue)[1]

IsTaskWith(link, tokens) ==
    /\ LinkedOf(link).issuetype = <<"Task">>
    /\ Range(LinkedOf(link).summary) \cap tokens # {}

\* the first such link, 0 when there is none
FirstWith(links, tokens) ==
    LET found == {i \in DOMAIN links : IsTaskWith(links[i], tokens)} IN
    IF found = {} THEN 0 ELSE CHOOSE i \in found : \A j \in found : i <= j

\* C30: the Auto task and status are those of the first Task in link order
\* whose summary has "auto", the TMS task and status those of the first whose
\* summary has "tms" (NA when there is none); once both are found the row is
\* the one built from the links up to there
C30_FirstMatchWins ==
    ProbeReturned("get_task_details") =>
        LET links == probe.links
            a == FirstWith(links, AutoTokens)
            t == FirstWith(links, TmsTokens)
        IN /\ probe.row.Auto_task = IF a = 0 THEN NA ELSE LinkedOf(links[a]).key[1]
           /\ probe.row.Auto_status = IF a = 0 THEN NA ELSE LinkedOf(links[a]).status[1]
           /\ probe.row.TMS_task = IF t = 0 THEN NA ELSE LinkedOf(links[t]).key[1]
           /\ probe.row.TMS_status = IF t = 0 THEN NA ELSE LinkedOf(links[t]).status[1]
           /\ (a # 0 /\ t # 0) =>
                 \A n \in 1..Len(links) :
                    (n >= a /\ n >= t) =>
                        probe.row = GetTaskDetails(ProbeFeature(<<DescCommitted>>),
                                                   <<ProbeQa(SubSeq(links, 1, n))>>)

\* an Auto match, a TMS match, then a Task that matches both
C30_Witness ==
    /\ ProbeReturned("get_task_details")
    /\ Len(probe.links) = 3
    /\ FirstWith(probe.links, AutoTokens) = 1
    /\ FirstWith(probe.links, TmsTokens) = 2
    /\ IsTaskWith(probe.links[3], AutoTokens) /\ IsTaskWith(probe.links[3], TmsTokens)
    /\ probe.row.Auto_task = LinkKeys[1]
    /\ probe.row.TMS_task = LinkKeys[2]

-----------------------------------------------------------------------------
(* Claims about fetch_tickets (SpecSync) *)

Queried == PipelineTracker(sync.tracker).features

Resolved == PipelineTracker(sync.tracker).issues

\* the rows of a sync of each tracker when the children are looked up one
\* chunk after the other
PipelineRows == [name \in PipelineNames |-> FetchRows(PipelineTracker(name))]

LookedUp == UNION {Range(chunks[i]) : i \in DOMAIN chunks}

\* the row of a feature alone
FeatureAlone(feature, row) ==
    /\ row._id = feature.key
    /\ row.QA_task = NA /\ row.QA_status = NA
    /\ row.QA_assignee = NA /\ row.QA_labels = NA
    /\ row.Auto_task = NA /\ row.Auto_status = NA
    /\ row.TMS_task = NA /\ row.TMS_status = NA

\* C21: a committed feature none of whose linked children qualifies has
\* exactly one row in the sync's output: its identity is the feature id and
\* its QA, Auto and TMS fields are all "NA"
C21_OneRowWithoutChildren ==
    sync.pc = "done" =>
        \A i \in DOMAIN Queried :
            (IsQaCommitted(Queried[i]) /\ QualifyingChildren(Queried[i], Resolved) = {})
            => /\ Len(RowsOf(Queried[i], sync.rows)) = 1
               /\ FeatureAlone(Queried[i], RowsOf(Queried[i], sync.rows)[1])

\* the feature whose children are a Bug and an unresolved key, and the feature
\* without links, each with its single row, next to a feature with QA rows
C21_Witness ==
    /\ sync.pc = "done"
    /\ sync.tracker = "mixed"
    /\ lookups # <<>>
    /\ Len(RowsOf(F_NoQa, sync.rows)) = 1
    /\ FeatureAlone(F_NoQa, RowsOf(F_NoQa, sync.rows)[1])
    /\ FeatureAlone(F_NoLinks, RowsOf(F_NoLinks, sync.rows)[1])
    /\ Len(RowsOf(F_Two, sync.rows)) = 2

\* no description, or no tag followed by "QA"
LacksMarker(feature) ==
    \/ feature.description = <<>>
    \/ ~TagThenQa(feature.description[1])

\* the children a feature is linked to, whatever the label
ChildrenOf(feature) ==
    {OrElse(feature.issuelinks[i].inwardIssue, feature.issuelinks[i].outwardIssue)[1].key :
        i \in DOMAIN feature.issuelinks}

\* C22: a feature without the commitment marker is not selected, has no row
\* in the output, and none of its children is looked up (unless a committed
\* feature links the same child)
C22_UncommittedDropped ==
    sync.pc \in {"fetching", "done"} =>
        \A i \in DOMAIN Queried :
            LacksMarker(Queried[i]) =>
                /\ \A j \in DOMAIN sync.features : sync.features[j].key # Queried[i].key
                /\ Queried[i].key \notin DOMAIN sync.linked
                /\ \A k \in ChildrenOf(Queried[i]) \cap (Range(keys_arg) \cup LookedUp) :
                      \E j \in DOMAIN Queried :
                          ~LacksMarker(Queried[j]) /\ k \in ChildrenOf(Queried[j])
                /\ sync.pc = "done" => RowsOf(Queried[i], sync.rows) = <<>>

\* a sync that looked children up and built rows, none for the features
\* without marker or description, whose children the tracker holds
C22_Witness ==
    /\ sync.pc = "done"
    /\ sync.tracker = "reversed"
    /\ sync.rows # <<>>
    /\ lookups # <<>>
    /\ RowsOf(F_NoDescription, sync.rows) = <<>>
    /\ ChildrenOf(F_NoDescription) \subseteq DOMAIN Resolved
    /\ ChildrenOf(F_NoDescription) \cap LookedUp = {}

\* C26: the rows of a sync are the same, in the same order, whatever order
\* the children are looked up and the chunks complete in
C26_RowOrderFixed ==
    sync.pc = "done" => sync.rows = PipelineRows[sync.tracker]

\* the chunks went to two workers, the first chunk held no child of the first
\* feature, and the rows begin with the first feature's children in link order
C26_Witness ==
    /\ sync.pc = "done"
    /\ sync.tracker = "mixed"
    /\ max_workers > 1 /\ Len(chunks) > 1
    /\ Range(chunks[1]) \cap {QA_A, QA_B} = {}
    /\ Len(sync.rows) = 4
    /\ sync.rows[1]._id = "SWDEV-1|SWDEV-10"
    /\ sync.rows[2]._id = "SWDEV-1|SWDEV-11"
    /\ sync.rows[3]._id = "SWDEV-4"
    /\ sync.rows[4]._id = "SWDEV-5"

\* the linked keys of the links that carry the label, in link order
RECURSIVE LabelledKeys(_)
LabelledKeys(links) ==
    IF links = <<>> THEN <<>>
    ELSE (IF Head(links).inward = "Comprised of Task"
          THEN <<OrElse(Head(links).inwardIssue, Head(links).outwardIssue)[1].key>>
          ELSE <<>>) \o LabelledKeys(Tail(links))

\* C28: for every selected feature the link resolver returns, in link order,
\* the linked keys of exactly the links labelled "Comprised of Task", whatever
\* the linked record is; the empty list for a feature without links; and when
\* it has returned the tracker has been called for the feature query only
C28_LinkResolver ==
    sync.pc \in {"fetching", "done"} =>
        /\ \A i \in DOMAIN sync.features :
              sync.linked[sync.features[i].key] =
                  LabelledKeys(sync.features[i].issuelinks)
        /\ bulk_pc = "start" => (sync.queries = 1 /\ lookups = <<>>)

\* the Bug is among the keys, the blocked Task is not, and the feature without
\* links has the empty list
C28_Witness ==
    /\ sync.pc = "fetching"
    /\ bulk_pc = "start"
    /\ sync.tracker = "mixed"
    /\ sync.linked[F_Two.key] = <<QA_A, QA_B, BUG_C>>
    /\ Resolved["SWDEV-12"].issuetype = <<"Task">>
    /\ Resolved[BUG_C].issuetype = <<"Bug">>
    /\ sync.linked[F_NoLinks.key] = <<>>

-----------------------------------------------------------------------------
(* Claims about the reconciliation's result and the stored rows (Spec) *)

\* the records of a finished run that were written: they carry an identity
\* and their store calls did not raise
Written(h) ==
    {i \in 1..h.processed : i \notin h.failed /\ h.tickets[i]._id # ""}

\* C31: a run that returns reports success exactly when it wrote at least one
\* record; the written records are the updated and the inserted ones, and the
\* collection holds each of them.  So a run whose records all failed, or
\* whose batch was empty, reports failure.
C31_SuccessIffWritten ==
    \A n \in DOMAIN history :
        LET h == history[n] IN
        h.result # RAISED =>
            /\ (h.result = "True") = (Written(h) # {})
            /\ (h.result = "True") = (h.updated + h.inserted > 0)
            /\ h.updated + h.inserted = Cardinality(Written(h))
            /\ \A i \in Written(h) : h.tickets[i]._id \in DOMAIN h.end_docs

\* a run that inserted reported success; the next one, whose only record
\* failed, reported failure
C31_Witness ==
    /\ Len(history) = 2
    /\ history[1].path = "summary" /\ history[1].inserted >= 1
    /\ history[1].result = "True"
    /\ history[2].path = "summary" /\ history[2].tickets # <<>>
    /\ history[2].errors = Len(history[2].tickets)
    /\ history[2].result = "False"

-----------------------------------------------------------------------------
(* The two fetchers compared (SpecClassify) *)

\* the identity the optimized fetcher gives the pairing of an original row
PairingOf(row) ==
    IF row.QA_task = NA THEN row.Feature_task
    ELSE row.Feature_task \o "|" \o row.QA_task

ComparedFields ==
    {"QA_task", "QA_status", "QA_assignee", "QA_labels",
     "Auto_task", "Auto_status", "TMS_task", "TMS_status"}

SamePairings(original, optimized) ==
    /\ Len(original) = Len(optimized)
    /\ \A i \in DOMAIN original : PairingOf(original[i]) = optimized[i]._id

SameFields(original, optimized, fields) ==
    \A i \in DOMAIN original \cap DOMAIN optimized :
        \A f \in fields : original[i][f] = optimized[i][f]

\* C32: on the same tracker data the original fetcher returns the pairings of
\* the optimized fetcher, in the same order, and each row has the same QA
\* fields and the same Auto and TMS task and status
C32_SameAsOriginal ==
    ProbeReturned("original fetch_tickets") =>
        LET optimized == FetchRows(probe.tracker) IN
        /\ probe.status = "returned"
        /\ SamePairings(probe.rows, optimized)
        /\ SameFields(probe.rows, optimized, ComparedFields)

\* C35: a step of a running force refresh, the update of a row it looked up
\* earlier included, leaves on every row the comments and the Effort the row
\* has at that moment; so an edit made between the lookup and the update is
\* on the row after the update and when the refresh has finished
C35_ConcurrentEditKept ==
    [][(run.pc # "idle" /\ run' # run) =>
        \A id \in DOMAIN docs :
            /\ id \in DOMAIN docs'
            /\ docs'[id].comments = docs[id].comments
            /\ docs'[id].Effort = docs[id].Effort]_vars

\* the refresh found the first row without comment or Effort, the user added
\* both before the update, and the updated row carries them
C35_Witness ==
    /\ run.pc = "find" /\ run.idx = 2
    /\ run.updated_count = 1
    /\ run.existing # <<>>
    /\ LET found == run.existing[1]
           id == run.tickets[1]._id
       IN /\ found._id = id
          /\ found.comments = <<>> /\ found.Effort = UNSET
          /\ docs[id].comments = <<CommentTexts[1]>>
          /\ docs[id].Effort # UNSET
          /\ docs[id].QA_status # found.QA_status
          /\ docs[id].QA_status = run.tickets[1].QA_status

LastRun == history[Len(history)]

\* C33: between force refreshes the collection never holds, for one feature,
\* a row of the feature alone next to a row of the feature with a QA task;
\* after a refresh that met no failure the rows of each fetched feature are
\* those of that fetch only
C33_NoBareAndComposite ==
    run.pc = "idle" =>
        /\ \A a, b \in DOMAIN docs :
              ~(/\ Len(IdParts[a]) = 1
                /\ Len(IdParts[b]) = 2
                /\ IdParts[b][1] = a)
        /\ (history # <<>> /\ LastRun.path = "summary" /\ LastRun.errors = 0) =>
              \A id \in DOMAIN docs :
                 (\E t \in IdsOf(LastRun.tickets) : IdParts[t][1] = IdParts[id][1])
                    => id \in IdsOf(LastRun.tickets)

\* C34: the identity of every stored document agrees with its QA_task: the
\* identity has no "|" part exactly when QA_task is "NA", and its second part
\* is the QA_task otherwise
C34_IdentityMatchesQaTask ==
    \A id \in DOMAIN docs :
        /\ docs[id]._id = id
        /\ (docs[id].QA_task = NA) = (Len(IdParts[id]) = 1)
        /\ Len(IdParts[id]) = 2 => IdParts[id][2] = docs[id].QA_task

\* a second sync has updated a document with a QA task next to a document of
\* the feature alone
C34_Witness ==
    /\ run.pc = "idle"
    /\ Len(history) = 2
    /\ history[2].updated + history[2].inserted >= 1
    /\ \E a, b \in DOMAIN docs :
          /\ docs[a].QA_task = NA
          /\ docs[b].QA_task # NA
          /\ b = a \o "|" \o docs[b].QA_task

-----------------------------------------------------------------------------
(* Claims about the dashboard's edits (SpecEdit) *)

\* C36: when comments_addition or update_effort has reported success for a
\* ticket id, the collection holds a document of that id and the comment is
\* its last comment, or the effort its Effort
C36_SuccessMeansStored ==
    /\ (ProbeReturned("comments_addition") /\ probe.ack) =>
          /\ probe.ticket_id \in DOMAIN docs
          /\ docs[probe.ticket_id].comments # <<>>
          /\ docs[probe.ticket_id].comments[Len(docs[probe.ticket_id].comments)]
                = probe.comment
    /\ (ProbeReturned("update_effort") /\ probe.ack) =>
          /\ probe.ticket_id \in DOMAIN docs
          /\ docs[probe.ticket_id].Effort = probe.effort

\* C37: the ticket id rebuilt from the displayed Feature ID and QA_task of a
\* row is the row's stored identity, and a comment submitted on the row is
\* that row's last comment
C37_TicketIdInverse ==
    (ProbeReturned("handle_comment_submission") /\ probe.result) =>
        /\ probe.ticket_id = probe.selected
        /\ docs[probe.selected].comments # <<>>
        /\ docs[probe.selected].comments[Len(docs[probe.selected].comments)]
              = probe.new_comment

====
